---- MODULE Spec2Model ----
(***************************************************************************)
(* A state-machine model of the m-obs ingestion and evaluation worker:     *)
(* the block scanner (worker/src/pipelines/block_scanner.py) with the      *)
(* persisted cursor of worker/src/state/worker_state.py, the metrics       *)
(* rollup, the alert evaluator and the provider probe.                     *)
(*                                                                         *)
(* Every await of the source is a suspension point; a pipeline is modelled *)
(* as a program counter that moves from one suspension point to the next.  *)
(* A failing RPC or database call, a missing block, a transaction whose    *)
(* receipt cannot be fetched and a crash of the process are faults; the    *)
(* number of faults in one behaviour is bounded by MaxDisturbances.        *)
(***************************************************************************)
EXTENDS Integers, Sequences, FiniteSets, TLC

\* ------------------------------------------------------------------ bounds

\* Disturbances per behaviour: faults (RPC error, DB error, null block, receipt
\* failure, crash) and chain reorganisations together.
MaxDisturbances == 2
\* Blocks the chain grows beyond its initial tip.
MaxTipAdvance == 1
\* How many blocks below the tip a reorganisation may replace.
MaxReorgDepth == 2

\* ------------------------------------------------------- program constants

\* config.block_batch_size
block_batch_size == 10
\* scan_cycle: catching_up = blocks_behind > 10
CatchUpThreshold == 10
\* handle_reorg: UPDATE txs ... WHERE block_number >= block_num - 10
TentativeWindow == 10
\* handle_reorg: new_last_block = max(0, block_num - 20)
RollbackDepth == 20

\* ---------------------------------------------------------------- helpers

Max(a, b) == IF a >= b THEN a ELSE b
Min(a, b) == IF a <= b THEN a ELSE b

\* ------------------------------------------------------------------ hashes
\* A block hash is the pair (number, branch) of the block it names.  Python's
\* None and the literal "0x0" are two further values of the same shape.

BlockHash(b, f) == [b |-> b, f |-> f]
NoneHash == [b |-> -1, f |-> 0]
ZeroHash == [b |-> 0, f |-> -1]

VARIABLES
  tip,             \* the chain: number of its newest block
  chain,           \* chain[b]: the branch block b is on, b \in 1..tip
  forks,           \* reorganisations so far
  txs,             \* table txs, rows in insertion order
  wsScan,          \* worker_state['last_scanned_block']: <<>> or <<value>>
  last_block_hash, \* BlockScanner.last_block_hash
  catching_up,     \* BlockScanner.catching_up
  last_scanned,    \* scan_cycle's last_scanned: the cursor it read
  pc,              \* the scanner's suspension point
  block_num,       \* scan_cycle's loop variable
  batch_end,       \* last block of the cycle's range
  block,           \* the block scan_block fetched
  reorg_at,        \* block at which this cycle detected a reorg, 0 if none
  crashed_mid_block, \* history: a crash hit between a block's insert and its cursor write
  last_bucket_ts,  \* MetricsRollup.last_bucket_ts
  wsRollup,        \* worker_state['metrics_rollup_cursor']: <<>> or <<value>>
  metrics_minute,  \* table metrics_minute, a set of rows
  rpc,             \* the rollup's suspension point
  target_bucket,   \* rollup_cycle's target_bucket
  metrics,         \* rollup_cycle's aggregate row
  alerts,          \* table alerts, by id
  alert_events,    \* table alert_events, in insertion order
  apc,             \* the evaluator's suspension point
  eval_now,        \* eval_cycle's now
  loaded,          \* eval_cycle's alerts, as loaded
  ai,              \* index in loaded of the alert under evaluation
  observed,        \* evaluate_alert's value_observed
  last_eval_ts,    \* AlertEvaluator.last_eval_ts
  wsAlert,         \* worker_state['alert_eval_cursor']: <<>> or <<value>>
  rpc_endpoints,   \* table rpc_endpoints, by id
  rpc_health_samples, \* table rpc_health_samples: per endpoint, row count and last row
  consecutive_failures, \* ProviderProbe.consecutive_failures
  leader_block,    \* ProviderProbe.leader_block
  ppc,             \* probe_cycle's suspension point
  endpoints,       \* probe_cycle's endpoints, as loaded
  probing,         \* per endpoint, the suspension point of its probe_endpoint
  results,         \* per endpoint, what its probe_endpoint returned
  ui,              \* index in endpoints of the result being processed
  probe_cycles,    \* probe cycles started
  providers,       \* ProviderManager.providers: per id, the url of the cached client
  last_switch_time, \* ProviderManager.last_switch_time
  mpc,             \* the suspension point of the manager call in progress
  returned,        \* what the last call of get_primary / get_trace_provider returned
  sw,              \* should_switch's current_id, now and return value
  writes,          \* writes to rpc_endpoints from outside the manager so far
  request_id,      \* RPCClient._request_id
  cpc,             \* the suspension point of RPCClient.call
  payload,         \* the request posted by the call in progress
  response,        \* what the node answered to the last call
  outcome,         \* what the last call returned or raised
  score_args,      \* calculate_score's arguments, last call
  score_ret,       \* what calculate_score returned, last call
  decoded,         \* the decoder's last call: input, selector, message, params
  wpc,             \* main's suspension point
  shutdown_event,  \* Worker.shutdown_event
  pool,            \* db.pool: "none", "open", or "closed" once disconnect is called
  tasks,           \* per task, its suspension point
  cancelling,      \* the tasks with a cancellation requested and not yet delivered
  late_calls,      \* history: the tasks that started a call after disconnect was called
  connect_failed,  \* history: db.connect raised
  clock,           \* time.time(), whole seconds
  faults           \* faults so far

scanVars == <<tip, chain, forks, txs, wsScan, last_block_hash, catching_up,
              last_scanned, pc,
              block_num, batch_end, block, reorg_at, crashed_mid_block>>
rollVars == <<last_bucket_ts, wsRollup, metrics_minute, rpc, target_bucket, metrics>>
\* What no step of the scanner changes (faults apart).
alertVars == <<alerts, alert_events, apc, eval_now, loaded, ai, observed,
               last_eval_ts, wsAlert>>
probeVars == <<rpc_endpoints, rpc_health_samples, consecutive_failures,
               leader_block, ppc, endpoints, probing, results, ui, probe_cycles>>
mgrVars == <<providers, last_switch_time, mpc, returned, sw, writes>>
clientVars == <<request_id, cpc, payload, response, outcome>>
scoreVars == <<score_args, score_ret>>
\* The components modelled on their own.
mainVars == <<wpc, shutdown_event, pool, tasks, cancelling, late_calls,
              connect_failed>>
decodeVars == <<decoded>>
otherVars == <<scoreVars, mainVars, decodeVars>>
notScan == <<rollVars, alertVars, probeVars, mgrVars, clientVars, otherVars, clock>>
vars == <<scanVars, notScan, faults>>

\* ------------------------------------------------------------------- chain

\* The chain's tip when the worker starts: two full batches ahead of an
\* empty database.
InitialTip == 2 * block_batch_size

\* Transactions of block b, by hash.  On the original branch (0) every fourth
\* block holds two transactions and the others none.  A block of a replacing
\* branch f re-includes the original transaction (b, 0) beside one of its
\* own, and the original transaction (b, 1) it dropped is included by the
\* block after it.
BlockTxs(b) ==
  LET f == chain[b]
  IN IF b % 4 = 0 THEN << <<b, 0>>, <<b, IF f = 0 THEN 1 ELSE f + 1>> >>
     ELSE IF b % 4 = 1 /\ b > 1 /\ f # 0 /\ chain[b - 1] # 0 THEN << <<b - 1, 1>> >>
     ELSE <<>>

\* receipt.status of a transaction: 1 success, 0 reverted.
TxStatus(h) == IF (h[1] + h[2]) % 3 = 0 THEN 0 ELSE 1

\* block.timestamp, seconds.
BlockTime(b) == 60 + 20 * b

\* What eth_getBlockByNumber(b, full_txs=True) returns for the chain as it is.
ChainBlock(b) ==
  [number |-> b,
   hash |-> BlockHash(b, chain[b]),
   parentHash |-> IF b = 1 THEN BlockHash(0, 0) ELSE BlockHash(b - 1, chain[b - 1]),
   timestamp |-> BlockTime(b),
   transactions |-> BlockTxs(b)]

NoBlock == [number |-> 0, hash |-> NoneHash, parentHash |-> NoneHash,
            timestamp |-> 0, transactions |-> <<>>]

\* ------------------------------------------------------------ worker_state

\* get_last_scanned_block: state or {"block_number": 0, "block_hash": "0x0"}
get_last_scanned_block ==
  IF wsScan = <<>> THEN [block_number |-> 0, block_hash |-> ZeroHash]
  ELSE wsScan[1]

\* set_last_scanned_block: upsert by key
set_last_scanned_block(n, h) == << [block_number |-> n, block_hash |-> h] >>

\* -------------------------------------------------------------------- txs

\* Revert data: the 4-byte selector and the ABI-encoded arguments, kept as
\* the type they encode and the value.
NoRevertData == [selector |-> "", type |-> "", value |-> ""]

\* receipt.revertReason of a transaction: every reverted transaction of the
\* chain reverts with Error("insufficient balance").
RevertReason(h) ==
  IF TxStatus(h) = 0
    THEN [selector |-> "0x08c379a0", type |-> "string",
          value |-> "insufficient balance"]
    ELSE NoRevertData

\* Python's None in a text column.
NoneText == "None"

\* PANIC_CODES, the codes 0x01, 0x11 and 0x12 of the table
PANIC_CODES ==
  (1 :> "Assertion failed") @@ (17 :> "Arithmetic overflow/underflow")
    @@ (18 :> "Division by zero")

\* decode_error: the message for revert data.
decode_error(error_data) ==
  IF error_data = NoRevertData THEN "Unknown revert"
  ELSE IF error_data.selector = "0x08c379a0"
    THEN (IF error_data.type = "string" THEN error_data.value ELSE "Error(string)")
  ELSE IF error_data.selector = "0x4e487b71"
    THEN (IF error_data.type = "uint256"
            THEN (IF error_data.value \in DOMAIN PANIC_CODES
                    THEN PANIC_CODES[error_data.value]
                    ELSE <<"Panic", error_data.value>>)
            ELSE "Panic(uint256)")
  ELSE "Custom error"

\* process_transactions, lines 142-154: error_decoded of a transaction.
ErrorDecoded(h) ==
  IF TxStatus(h) = 0 /\ RevertReason(h) # NoRevertData
    THEN decode_error(RevertReason(h))
    ELSE NoneText

\* contract_id = None
NoContract == 0

\* process_transactions, lines 157-164: the watched contract a transaction
\* is sent to. The second transaction of a block of the original branch goes
\* to watched contract 1, the others to addresses that are not watched.
ContractOf(h) == IF h[2] = 1 THEN 1 ELSE NoContract

\* tx.gasPrice, in gwei: the first transaction of a block pays 20, the
\* others 80.
GasPrice(h) == IF h[2] = 0 THEN 20 ELSE 80

\* The row process_transactions builds for one transaction.
TxRow(h, bn, ts) ==
  [hash |-> h, block_number |-> bn, block_timestamp |-> ts,
   contract_id |-> ContractOf(h), gas_price |-> GasPrice(h),
   status |-> TxStatus(h), error_decoded |-> ErrorDecoded(h),
   is_tentative |-> FALSE, ingested_at |-> clock]

HasHash(table, h) == \E i \in 1..Len(table) : table[i].hash = h

\* InsertRow as a plain INSERT, without the conflict clause.
InsertRowNoConflict(table, row) == Append(table, row)

\* InsertRow as an upsert: ON CONFLICT (hash) DO UPDATE with the new row.
InsertRowUpsert(table, row) ==
  IF HasHash(table, row.hash)
    THEN [i \in 1..Len(table) |->
            IF table[i].hash = row.hash THEN row ELSE table[i]]
    ELSE Append(table, row)

\* INSERT INTO txs ... ON CONFLICT (hash) DO NOTHING, one row.
InsertRow(table, row) ==
  IF HasHash(table, row.hash) THEN table ELSE Append(table, row)

\* db.execute_many over the batch, in order.
RECURSIVE InsertRows(_, _)
InsertRows(table, rows) ==
  IF rows = <<>> THEN table
  ELSE InsertRows(InsertRow(table, Head(rows)), Tail(rows))

\* UPDATE txs SET is_tentative = true WHERE block_number >= bound
MarkTentative(table, bound) ==
  [i \in 1..Len(table) |->
     IF table[i].block_number >= bound
       THEN [table[i] EXCEPT !.is_tentative = TRUE]
       ELSE table[i]]

\* TentativeFrom without the window: only the reorged block and later.
TentativeFromNoWindow(n) == n

\* NewLastBlock without the clamp at 0.
NewLastBlockNoClamp(n) == n - RollbackDepth

\* handle_reorg, line 221: the first block marked tentative
TentativeFrom(n) == n - TentativeWindow

\* NewLastBlock counted from the last ingested block, n - 1.
NewLastBlockFromIngested(n) == Max(0, n - 1 - RollbackDepth)

\* handle_reorg, line 225: the block the cursor is rolled back to
NewLastBlock(n) == Max(0, n - RollbackDepth)

\* RowsOf with a row for the skipped transactions as well.
RECURSIVE RowsOfAll(_, _, _)
RowsOfAll(blk, hashes, skipped) ==
  IF hashes = <<>> THEN <<>>
  ELSE <<TxRow(Head(hashes), blk.number, blk.timestamp)>>
         \o RowsOfAll(blk, Tail(hashes), skipped)

\* process_transactions, lines 118-191: the rows of a fetched block; a
\* transaction in `skipped` failed and has none.
RECURSIVE RowsOf(_, _, _)
RowsOf(blk, hashes, skipped) ==
  IF hashes = <<>> THEN <<>>
  ELSE LET rest == RowsOf(blk, Tail(hashes), skipped)
       IN IF Head(hashes) \in skipped THEN rest
          ELSE <<TxRow(Head(hashes), blk.number, blk.timestamp)>> \o rest

\* ----------------------------------------------------- the chain's actions

\* The scanner reads the chain at two points only, scan_cycle's
\* eth_blockNumber and scan_block's eth_getBlockByNumber; a change of the chain
\* at any other moment is the same change seen at the next of these reads.
ChainObserved == pc \in {"idle", "fetch"}

\* A new block extends the current branch.
TipAdvance ==
  /\ ChainObserved
  /\ tip < InitialTip + MaxTipAdvance
  /\ tip' = tip + 1
  /\ chain' = Append(chain, chain[tip])
  /\ UNCHANGED <<forks, txs, wsScan, last_block_hash, catching_up, last_scanned, pc,
                 block_num, batch_end, block, reorg_at, crashed_mid_block, notScan, faults>>

\* The blocks from k to the tip are replaced by a new branch.
ChainReorg ==
  /\ ChainObserved
  /\ faults + forks < MaxDisturbances
  /\ \E k \in Max(1, tip - MaxReorgDepth + 1)..tip :
       chain' = [b \in 1..tip |-> IF b >= k THEN forks + 1 ELSE chain[b]]
  /\ forks' = forks + 1
  /\ UNCHANGED <<tip, txs, wsScan, last_block_hash, catching_up, last_scanned, pc,
                 block_num, batch_end, block, reorg_at, crashed_mid_block, notScan, faults>>

\* ------------------------------------------------------- BlockScanner

Fault == faults + forks < MaxDisturbances /\ faults' = faults + 1

\* scan_cycle, lines 43-50: eth_blockNumber raises RPCError; mark_failure only
\* logs, and the cycle returns.
ScanCycleRpcError ==
  /\ pc = "idle"
  /\ Fault
  /\ UNCHANGED <<scanVars, clientVars, otherVars, notScan>>

\* BatchSize without the catching-up test: everything up to the tip, at most
\* block_batch_size blocks.
BatchSizeToTip(current_block, cursor) ==
  Min(block_batch_size, current_block - cursor)

\* scan_cycle's batch size for a tip and a cursor
BatchSize(current_block, cursor) ==
  IF current_block - cursor > CatchUpThreshold
    THEN Min(block_batch_size, current_block - cursor)
    ELSE 1

\* scan_cycle, lines 43-72: read the tip and the cursor, choose the range.
ScanCycleStart ==
  /\ pc = "idle"
  /\ last_scanned' = get_last_scanned_block.block_number
  /\ LET current_block == tip
     IN IF current_block <= last_scanned'
          THEN /\ catching_up' = FALSE
               /\ UNCHANGED <<pc, block_num, batch_end, reorg_at>>
          ELSE /\ catching_up' = (current_block - last_scanned' > CatchUpThreshold)
               /\ block_num' = last_scanned' + 1
               /\ batch_end' = last_scanned' + BatchSize(current_block, last_scanned')
               /\ reorg_at' = 0
               /\ pc' = "fetch"
  /\ UNCHANGED <<tip, chain, forks, txs, wsScan, last_block_hash, block,
                 crashed_mid_block, notScan, faults>>

\* FetchRpcError with the error swallowed by scan_block: the loop goes on.
FetchRpcErrorSwallowed ==
  /\ pc = "fetch"
  /\ Fault
  /\ pc' = "next"
  /\ UNCHANGED <<tip, chain, forks, txs, wsScan, last_block_hash, catching_up, last_scanned,
                 block_num, batch_end, block, reorg_at, crashed_mid_block, notScan>>

\* scan_block, lines 104-107: eth_getBlockByNumber raises RPCError;
\* mark_failure only logs, the error is re-raised and ends the cycle in
\* run's handler.
FetchRpcError ==
  /\ pc = "fetch"
  /\ Fault
  /\ pc' = "idle"
  /\ UNCHANGED <<tip, chain, forks, txs, wsScan, last_block_hash, catching_up, last_scanned,
                 block_num, batch_end, block, reorg_at, crashed_mid_block, notScan>>

\* scan_block, lines 81-83: the block is null; scan_block returns and
\* scan_cycle's loop goes on.
FetchNull ==
  /\ pc = "fetch"
  /\ Fault
  /\ pc' = "next"
  /\ UNCHANGED <<tip, chain, forks, txs, wsScan, last_block_hash, catching_up, last_scanned,
                 block_num, batch_end, block, reorg_at, crashed_mid_block, notScan>>

\* ReorgDetected with the hash persisted in last_scanned_block standing in
\* for an empty last_block_hash.
ReorgDetectedPersisted(blk) ==
  LET known == IF last_block_hash # NoneHash
                 THEN last_block_hash
                 ELSE get_last_scanned_block.block_hash
  IN known # ZeroHash /\ blk.parentHash # known

\* scan_block, line 86
ReorgDetected(blk) ==
  last_block_hash # NoneHash /\ blk.parentHash # last_block_hash

\* ScanBlockOrder with the cursor persisted before the rows are inserted.
ScanBlockOrderCursorFirst == <<"persist", "insert">>

\* The order of scan_block's two writes for a block that is ingested
\* (lines 95-100): the rows first, the cursor second.
ScanBlockOrder == <<"insert", "persist">>

\* The suspension point after `step` of an ingested block.
After(step, hasTxs) ==
  LET first == ScanBlockOrder[1]
      second == ScanBlockOrder[2]
      skip(s) == s = "insert" /\ ~hasTxs
  IN IF step = "fetch"
       THEN IF ~skip(first) THEN first ELSE second
     ELSE IF step = first
       THEN IF ~skip(second) THEN second ELSE "next"
     ELSE "next"

\* scan_block, lines 79-96: the block is fetched and its parent checked.
FetchBlock ==
  /\ pc = "fetch"
  /\ LET blk == ChainBlock(block_num)
     IN IF ReorgDetected(blk)
          THEN /\ reorg_at' = block_num
               /\ pc' = "reorg_mark"
               /\ UNCHANGED block
          ELSE /\ block' = blk
               /\ pc' = After("fetch", blk.transactions # <<>>)
               /\ UNCHANGED reorg_at
  /\ UNCHANGED <<tip, chain, forks, txs, wsScan, last_block_hash, catching_up, last_scanned,
                 block_num, batch_end, crashed_mid_block, notScan, faults>>

\* process_transactions, lines 117-208: every receipt is fetched, every row
\* built and the batch inserted.
InsertTxs ==
  /\ pc = "insert"
  /\ txs' = InsertRows(txs, RowsOf(block, block.transactions, {}))
  /\ pc' = After("insert", TRUE)
  /\ UNCHANGED <<tip, chain, forks, wsScan, last_block_hash, catching_up, last_scanned,
                 block_num, batch_end, block, reorg_at, crashed_mid_block, notScan, faults>>

\* process_transactions, lines 122-191: one transaction's receipt or row
\* fails; it is logged and skipped, the others are inserted.
InsertTxsSkipOne ==
  /\ pc = "insert"
  /\ Fault
  /\ \E i \in 1..Len(block.transactions) :
       txs' = InsertRows(txs, RowsOf(block, block.transactions, {block.transactions[i]}))
  /\ pc' = After("insert", TRUE)
  /\ UNCHANGED <<tip, chain, forks, wsScan, last_block_hash, catching_up, last_scanned,
                 block_num, batch_end, block, reorg_at, crashed_mid_block, notScan>>

\* process_transactions, lines 194-206: the batch insert raises after some
\* prefix of the batch was written (none, if the driver's batch is atomic);
\* the exception ends the cycle.
InsertTxsDbError ==
  /\ pc = "insert"
  /\ Fault
  /\ \E k \in 0..(Len(block.transactions) - 1) :
       txs' = InsertRows(txs, SubSeq(RowsOf(block, block.transactions, {}), 1, k))
  /\ pc' = "idle"
  /\ UNCHANGED <<tip, chain, forks, wsScan, last_block_hash, catching_up, last_scanned,
                 block_num, batch_end, block, reorg_at, crashed_mid_block, notScan>>

\* PersistCursor without the write of last_scanned_block.
PersistCursorMemoryOnly ==
  /\ pc = "persist"
  /\ last_block_hash' = block.hash
  /\ pc' = After("persist", block.transactions # <<>>)
  /\ UNCHANGED <<tip, chain, forks, txs, wsScan, catching_up, last_scanned, block_num,
                 batch_end, block, reorg_at, crashed_mid_block, notScan, faults>>

\* scan_block, lines 99-100: last_block_hash is assigned, then the cursor
\* is persisted.
PersistCursor ==
  /\ pc = "persist"
  /\ last_block_hash' = block.hash
  /\ wsScan' = set_last_scanned_block(block_num, block.hash)
  /\ pc' = After("persist", block.transactions # <<>>)
  /\ UNCHANGED <<tip, chain, forks, txs, catching_up, last_scanned, block_num, batch_end,
                 block, reorg_at, crashed_mid_block, notScan, faults>>

\* scan_block, lines 99-100: the assignment is done, the database write
\* raises; the exception ends the cycle.
PersistCursorDbError ==
  /\ pc = "persist"
  /\ Fault
  /\ last_block_hash' = block.hash
  /\ pc' = "idle"
  /\ UNCHANGED <<tip, chain, forks, txs, wsScan, catching_up, last_scanned, block_num,
                 batch_end, block, reorg_at, crashed_mid_block, notScan>>

\* handle_reorg, lines 215-222
ReorgMark ==
  /\ pc = "reorg_mark"
  /\ txs' = MarkTentative(txs, TentativeFrom(block_num))
  /\ pc' = "reorg_rollback"
  /\ UNCHANGED <<tip, chain, forks, wsScan, last_block_hash, catching_up, last_scanned,
                 block_num, batch_end, block, reorg_at, crashed_mid_block, notScan, faults>>

\* handle_reorg, lines 225-227; scan_block then returns (line 89)
ReorgRollback ==
  /\ pc = "reorg_rollback"
  /\ wsScan' = set_last_scanned_block(NewLastBlock(block_num), ZeroHash)
  /\ last_block_hash' = NoneHash
  /\ pc' = "next"
  /\ UNCHANGED <<tip, chain, forks, txs, catching_up, last_scanned, block_num, batch_end,
                 block, reorg_at, crashed_mid_block, notScan, faults>>

\* handle_reorg: one of its two database writes raises; the exception ends
\* the cycle with last_block_hash as it was.
ReorgDbError ==
  /\ pc \in {"reorg_mark", "reorg_rollback"}
  /\ Fault
  /\ pc' = "idle"
  /\ UNCHANGED <<tip, chain, forks, txs, wsScan, last_block_hash, catching_up, last_scanned,
                 block_num, batch_end, block, reorg_at, crashed_mid_block, notScan>>

\* scan_cycle, lines 72-73: the for loop takes the next block of the range.
NextBlock ==
  /\ pc = "next"
  /\ block_num < batch_end
  /\ block_num' = block_num + 1
  /\ pc' = "fetch"
  /\ UNCHANGED <<tip, chain, forks, txs, wsScan, last_block_hash, catching_up, last_scanned,
                 batch_end, block, reorg_at, crashed_mid_block, notScan, faults>>

\* scan_cycle returns: the range is exhausted.
ScanCycleEnd ==
  /\ pc = "next"
  /\ block_num = batch_end
  /\ pc' = "idle"
  /\ UNCHANGED <<tip, chain, forks, txs, wsScan, last_block_hash, catching_up, last_scanned,
                 block_num, batch_end, block, reorg_at, crashed_mid_block, notScan, faults>>

\* config.py, line 24: poll_interval_scanner, in seconds
poll_interval_scanner == 2

\* run, line 33: the interval while catching up, 0.5 s, in milliseconds
CatchUpSleep == 500

\* run, line 38: the sleep of the exception handler, 5 s, in milliseconds
ErrorSleep == 5000

\* A step in which scan_cycle raises into run's handler: a block's fetch or
\* a database call failed in the middle of the range.
CycleRaised == pc # "idle" /\ pc' = "idle" /\ faults' # faults

\* A step in which scan_cycle returns: the range is exhausted, there was
\* nothing to scan, or eth_blockNumber failed (lines 47-50).
CycleReturned ==
  /\ pc \in {"idle", "next"}
  /\ pc' = "idle"
  /\ tip' = tip
  /\ chain' = chain

\* run, lines 30-38: the milliseconds run sleeps after a cycle; `catching`
\* is self.catching_up as the cycle left it.
RunSleep(raised, catching) ==
  IF raised THEN ErrorSleep
  ELSE IF catching THEN CatchUpSleep
  ELSE poll_interval_scanner * 1000

\* The process dies at a suspension point and is started again:
\* BlockScanner.__init__ runs, the database keeps what was written.
CrashRestart ==
  /\ Fault
  /\ pc' = "idle"
  /\ last_block_hash' = NoneHash
  /\ catching_up' = FALSE
  /\ last_scanned' = 0
  /\ block' = NoBlock
  /\ block_num' = 0
  /\ batch_end' = 0
  /\ reorg_at' = 0
  /\ crashed_mid_block' = (crashed_mid_block \/ (pc = "persist" /\ block.transactions # <<>>))
  /\ UNCHANGED <<tip, chain, forks, txs, wsScan, notScan>>

\* ------------------------------------------------------------------ clock

\* Seconds per minute bucket (rollup_cycle, lines 41 and 44).
BucketSeconds == 60

\* The clock's granularity: two ticks a minute.
TickSeconds == BucketSeconds \div 2

\* The wall clock when the worker starts.
ClockStart == 2 * BucketSeconds

\* Ticks of the clock per behaviour.
MaxTicks == 6

Tick ==
  /\ clock < ClockStart + MaxTicks * TickSeconds
  /\ clock' = clock + TickSeconds
  /\ UNCHANGED <<scanVars, clientVars, otherVars, alertVars, probeVars, mgrVars, rollVars, faults>>

\* ---------------------------------------------------------- MetricsRollup

NoMetrics == [bucket_ts |-> 0, tx_count |-> 0, tx_failed_count |-> 0,
              gas_price_avg |-> 0, block_count |-> 0]

\* TargetBucket for the minute still running.
TargetBucketCurrent(now) == (now \div BucketSeconds) * BucketSeconds

\* rollup_cycle, lines 40-44: the completed minute before `now`
TargetBucket(now) == (now \div BucketSeconds) * BucketSeconds - BucketSeconds

\* rollup_cycle, line 47
AlreadyProcessed(target) == target <= last_bucket_ts

\* WHERE block_timestamp >= $1 AND block_timestamp < $2, as row indices
InBucket(table, b) ==
  {i \in 1..Len(table) :
     table[i].block_timestamp >= b /\ table[i].block_timestamp < b + BucketSeconds}

\* SUM(gas_price) over the rows with the indices of `rows`
RECURSIVE GasSum(_, _)
GasSum(table, rows) ==
  IF rows = {} THEN 0
  ELSE LET i == CHOOSE j \in rows : TRUE
       IN table[i].gas_price + GasSum(table, rows \ {i})

\* rollup_cycle, lines 70-84 and 143-150: the aggregate row of a bucket;
\* gas_price_avg is int(AVG(gas_price) or 0), line 139.
Aggregate(table, b) ==
  [bucket_ts |-> b,
   tx_count |-> Cardinality(InBucket(table, b)),
   tx_failed_count |-> Cardinality({i \in InBucket(table, b) : table[i].status = 0}),
   gas_price_avg |-> IF InBucket(table, b) = {} THEN 0
                     ELSE GasSum(table, InBucket(table, b))
                            \div Cardinality(InBucket(table, b)),
   block_count |-> Cardinality({table[i].block_number : i \in InBucket(table, b)})]

\* INSERT INTO metrics_minute ... ON CONFLICT (bucket_ts) DO UPDATE
UpsertMetrics(mm, row) == {m \in mm : m.bucket_ts # row.bucket_ts} \cup {row}

\* get_state("metrics_rollup_cursor"), run lines 25-27
LoadRollupCursor == IF wsRollup = <<>> THEN 0 ELSE wsRollup[1].last_bucket_ts

\* rollup_cycle, lines 40-48: the target is computed; a bucket already
\* processed ends the cycle.
RollupCycleStart ==
  /\ rpc = "idle"
  /\ ~AlreadyProcessed(TargetBucket(clock))
  /\ target_bucket' = TargetBucket(clock)
  /\ rpc' = "count"
  /\ UNCHANGED <<scanVars, clientVars, otherVars, alertVars, probeVars, mgrVars, last_bucket_ts, wsRollup, metrics_minute, metrics,
                 clock, faults>>

\* NoData that never holds: the bucket is aggregated whatever the count.
NoDataNever(table, b) == FALSE

\* rollup_cycle, line 60: `not data_check or data_check["count"] == 0`
NoData(table, b) == Cardinality(InBucket(table, b)) = 0

\* rollup_cycle, lines 51-65: the count query; an empty bucket advances the
\* in-memory cursor and goes to the cursor write.
RollupCount ==
  /\ rpc = "count"
  /\ IF NoData(txs, target_bucket)
       THEN /\ last_bucket_ts' = target_bucket
            /\ rpc' = "save"
       ELSE /\ rpc' = "aggregate"
            /\ UNCHANGED last_bucket_ts
  /\ UNCHANGED <<scanVars, clientVars, otherVars, alertVars, probeVars, mgrVars, wsRollup, metrics_minute, target_bucket, metrics,
                 clock, faults>>

\* rollup_cycle, lines 70-118: the aggregate queries
RollupAggregate ==
  /\ rpc = "aggregate"
  /\ metrics' = Aggregate(txs, target_bucket)
  /\ rpc' = "upsert"
  /\ UNCHANGED <<scanVars, clientVars, otherVars, alertVars, probeVars, mgrVars, last_bucket_ts, wsRollup, metrics_minute,
                 target_bucket, clock, faults>>

\* rollup_cycle, lines 121-154: the upsert, then the in-memory cursor
RollupUpsert ==
  /\ rpc = "upsert"
  /\ metrics_minute' = UpsertMetrics(metrics_minute, metrics)
  /\ last_bucket_ts' = target_bucket
  /\ rpc' = "save"
  /\ UNCHANGED <<scanVars, clientVars, otherVars, alertVars, probeVars, mgrVars, wsRollup, target_bucket, metrics, clock, faults>>

\* rollup_cycle, lines 64 and 155: set_state("metrics_rollup_cursor")
RollupSave ==
  /\ rpc = "save"
  /\ wsRollup' = << [last_bucket_ts |-> target_bucket] >>
  /\ rpc' = "idle"
  /\ target_bucket' = 0
  /\ metrics' = NoMetrics
  /\ UNCHANGED <<scanVars, clientVars, otherVars, alertVars, probeVars, mgrVars, last_bucket_ts, metrics_minute,
                 clock, faults>>

\* A database call of the cycle raises; run's handler (lines 33-35) logs it
\* and the next cycle starts from what memory holds.
RollupDbError ==
  /\ rpc \in {"count", "aggregate", "upsert", "save"}
  /\ Fault
  /\ rpc' = "idle"
  /\ target_bucket' = 0
  /\ metrics' = NoMetrics
  /\ UNCHANGED <<scanVars, clientVars, otherVars, alertVars, probeVars, mgrVars, last_bucket_ts, wsRollup,
                 metrics_minute, clock>>

\* The process restarts: __init__ and run's lines 25-27 load the cursor.
RollupRestart ==
  /\ Fault
  /\ rpc' = "idle"
  /\ last_bucket_ts' = LoadRollupCursor
  /\ target_bucket' = 0
  /\ metrics' = NoMetrics
  /\ UNCHANGED <<scanVars, clientVars, otherVars, alertVars, probeVars, mgrVars, wsRollup, metrics_minute, clock>>

\* The highest block mined by `now`.
RECURSIVE MinedTip(_, _)
MinedTip(b, now) ==
  IF b < tip /\ BlockTime(b + 1) <= now THEN MinedTip(b + 1, now) ELSE b

\* The scanner's scan_block for the blocks from..to in turn: each block's
\* rows are inserted.
RECURSIVE ScanBlocks(_, _, _)
ScanBlocks(table, from, to) ==
  IF from > to THEN table
  ELSE ScanBlocks(InsertRows(table, RowsOf(ChainBlock(from),
                                           ChainBlock(from).transactions, {})),
                  from + 1, to)

\* The scanner catches up with the blocks mined so far: scan cycles without
\* faults from the block after the cursor to the tip of the moment.
IngestMined ==
  /\ pc = "idle"
  /\ LET cursor == get_last_scanned_block.block_number
         current_block == MinedTip(cursor, clock)
     IN /\ current_block > cursor
        /\ txs' = ScanBlocks(txs, cursor + 1, current_block)
        /\ wsScan' = set_last_scanned_block(current_block,
                                            ChainBlock(current_block).hash)
  /\ UNCHANGED <<tip, chain, forks, last_block_hash, catching_up, last_scanned, pc, block_num,
                 batch_end, block, reorg_at, crashed_mid_block, notScan, faults>>

\* --------------------------------------------------------- AlertEvaluator

\* The rules of table alerts: two failure_rate rules, the first over all
\* transactions, the second over those of contract 1.
AlertIds == 1..2

AlertRows ==
  [id \in AlertIds |->
     [id |-> id, alert_type |-> "failure_rate", threshold |-> 10 + 20 * id,
      window_minutes |-> id, cooldown_minutes |-> id,
      severity |-> IF id = 1 THEN "warning" ELSE "critical",
      contract_ids |-> IF id = 1 THEN {} ELSE {1},
      is_enabled |-> TRUE, last_triggered_at |-> 0]]

\* value_observed is a ratio num/den; None has den = 0.
NoValue == [num |-> 0, den |-> 0]

\* eval_cycle, lines 42-44: SELECT * FROM alerts WHERE is_enabled = true
RECURSIVE EnabledAlerts(_)
EnabledAlerts(id) ==
  IF id \notin AlertIds THEN <<>>
  ELSE (IF alerts[id].is_enabled THEN <<alerts[id]>> ELSE <<>>)
       \o EnabledAlerts(id + 1)

\* evaluate_alert, lines 70-74
InCooldown(alert, now) ==
  /\ alert.last_triggered_at # 0
  /\ now - alert.last_triggered_at < alert.cooldown_minutes * 60

\* RateAbove with the threshold itself included.
RateAboveInclusive(failed, total, threshold) == failed * 100 >= threshold * total

\* eval_failure_rate, lines 161-164: failed / total * 100 > threshold, for
\* total > 0
RateAbove(failed, total, threshold) == failed * 100 > threshold * total

\* eval_failure_rate, lines 136-166
eval_failure_rate(threshold, window_start, window_end, contract_ids) ==
  LET rows == {i \in 1..Len(txs) :
                 /\ txs[i].block_timestamp >= window_start
                 /\ txs[i].block_timestamp < window_end
                 /\ contract_ids # {} => txs[i].contract_id \in contract_ids}
      total == Cardinality(rows)
      failed == Cardinality({i \in rows : txs[i].status = 0})
  IN IF total = 0
       THEN [value |-> NoValue, triggered |-> FALSE]
       ELSE [value |-> [num |-> failed * 100, den |-> total],
             triggered |-> RateAbove(failed, total, threshold)]

\* The gas_spike rules of table alerts: thresholds 2 and 4 (multipliers),
\* windows of 1 and 3 minutes.
GasAlertRows ==
  [id \in AlertIds |->
     [id |-> id, alert_type |-> "gas_spike", threshold |-> 2 * id,
      window_minutes |-> 2 * id - 1, cooldown_minutes |-> id,
      severity |-> IF id = 1 THEN "warning" ELSE "critical",
      contract_ids |-> {},
      is_enabled |-> TRUE, last_triggered_at |-> 0]]

\* The three minutes before the worker starts.
GasBuckets == {ClockStart - k * BucketSeconds : k \in 1..3}

\* gas_price_avg of a rolled-up minute, in gwei.
GasAverages == {0, 20, 80}

\* The row rollup_cycle wrote for a minute with one transaction at gas
\* price g.
GasRow(b, g) ==
  [bucket_ts |-> b, tx_count |-> 1, tx_failed_count |-> 0,
   gas_price_avg |-> g, block_count |-> 1]

\* The tables the rollup can have left: each of the minutes has no row
\* (no transactions then) or one row.
GasTables ==
  {{GasRow(b, f[b]) : b \in {c \in GasBuckets : f[c] # -1}} :
     f \in [GasBuckets -> GasAverages \cup {-1}]}

\* SUM(gas_price_avg) over a set of rows of metrics_minute
RECURSIVE SumGasAvg(_)
SumGasAvg(rows) ==
  IF rows = {} THEN 0
  ELSE LET r == CHOOSE x \in rows : TRUE
       IN r.gas_price_avg + SumGasAvg(rows \ {r})

\* SpikeAbove with the threshold itself included.
SpikeAboveInclusive(cur, cur_n, base, base_n, threshold) ==
  cur * base_n >= threshold * base * cur_n

\* eval_gas_spike, lines 213-216: current_avg / baseline_avg > threshold for
\* the averages cur / cur_n and base / base_n, base > 0
SpikeAbove(cur, cur_n, base, base_n, threshold) ==
  cur * base_n > threshold * base * cur_n

\* eval_gas_spike, lines 168-218. AVG over no rows is NULL; the averages
\* are kept as sum and count, the multiplier as a ratio.
eval_gas_spike(threshold, window_start, window_end) ==
  LET current == {r \in metrics_minute :
                    r.bucket_ts >= window_start /\ r.bucket_ts < window_end}
      baseline_start == window_start - 3600
      baseline_end == window_start
      baseline == {r \in metrics_minute :
                     r.bucket_ts >= baseline_start /\ r.bucket_ts < baseline_end}
      cur == SumGasAvg(current)
      cur_n == Cardinality(current)
      base == SumGasAvg(baseline)
      base_n == Cardinality(baseline)
  IN IF current = {} THEN [value |-> NoValue, triggered |-> FALSE]
     ELSE IF baseline = {} THEN [value |-> NoValue, triggered |-> FALSE]
     ELSE IF base = 0 THEN [value |-> NoValue, triggered |-> FALSE]
     ELSE [value |-> [num |-> cur * base_n, den |-> base * cur_n],
           triggered |-> SpikeAbove(cur, cur_n, base, base_n, threshold)]

\* The API's update_alert (routes/alerts.py, lines 165-252) with a request
\* that sets is_enabled: the rule is enabled or disabled.
update_alert(alert_id, is_enabled) ==
  /\ alerts[alert_id].is_enabled # is_enabled
  /\ alerts' = [alerts EXCEPT ![alert_id].is_enabled = is_enabled]
  /\ UNCHANGED <<scanVars, clientVars, otherVars, rollVars, probeVars, mgrVars, alert_events,
                 apc, eval_now, loaded, ai, observed, last_eval_ts, wsAlert,
                 clock, faults>>

\* get_state("alert_eval_cursor"), run lines 25-27
LoadEvalCursor == IF wsAlert = <<>> THEN 0 ELSE wsAlert[1].last_eval_ts

\* eval_cycle, lines 51-58: the loop goes to the next alert; after the last
\* one the in-memory cursor is set and the cursor write is next.
NextAlert ==
  /\ ai' = ai + 1
  /\ observed' = NoValue
  /\ IF ai + 1 > Len(loaded)
       THEN apc' = "cursor" /\ last_eval_ts' = eval_now
       ELSE apc' = "eval" /\ UNCHANGED last_eval_ts

\* eval_cycle, lines 39-49: now is taken and the enabled alerts are loaded;
\* without any the cycle returns.
EvalCycleStart ==
  /\ apc = "idle"
  /\ IF EnabledAlerts(1) = <<>>
       THEN /\ eval_now' = clock
            /\ UNCHANGED <<loaded, ai, apc>>
       ELSE /\ eval_now' = clock
            /\ loaded' = EnabledAlerts(1)
            /\ ai' = 1
            /\ apc' = "eval"
  /\ UNCHANGED <<scanVars, clientVars, otherVars, rollVars, probeVars, mgrVars, alerts, alert_events, observed,
                 last_eval_ts, wsAlert, clock, faults>>

\* evaluate_alert, lines 63-74: the alert is in its cooldown.
EvalCooldownSkip ==
  /\ apc = "eval"
  /\ InCooldown(loaded[ai], eval_now)
  /\ NextAlert
  /\ UNCHANGED <<scanVars, clientVars, otherVars, rollVars, probeVars, mgrVars, alerts, alert_events, eval_now,
                 loaded, wsAlert, clock, faults>>

\* evaluate_alert, lines 76-105: the rule's query is evaluated.
EvaluateAlert ==
  /\ apc = "eval"
  /\ ~InCooldown(loaded[ai], eval_now)
  /\ LET alert == loaded[ai]
         window_start == eval_now - alert.window_minutes * 60
         r == IF alert.alert_type = "failure_rate"
                THEN eval_failure_rate(alert.threshold, window_start, eval_now,
                                       alert.contract_ids)
                ELSE eval_gas_spike(alert.threshold, window_start, eval_now)
     IN IF r.triggered /\ r.value # NoValue
          THEN /\ observed' = r.value
               /\ apc' = "event"
               /\ UNCHANGED <<ai, last_eval_ts>>
          ELSE NextAlert
  /\ UNCHANGED <<scanVars, clientVars, otherVars, rollVars, probeVars, mgrVars, alerts, alert_events, eval_now,
                 loaded, wsAlert, clock, faults>>

\* create_alert_event, lines 249-266
CreateAlertEvent ==
  /\ apc = "event"
  /\ alert_events' = Append(alert_events,
       [alert_id |-> loaded[ai].id, triggered_at |-> eval_now,
        severity |-> loaded[ai].severity, value_observed |-> observed,
        threshold |-> loaded[ai].threshold])
  /\ apc' = "update"
  /\ UNCHANGED <<scanVars, clientVars, otherVars, rollVars, probeVars, mgrVars, alerts, eval_now, loaded, ai,
                 observed, last_eval_ts, wsAlert, clock, faults>>

\* evaluate_alert, lines 116-120: UPDATE alerts SET last_triggered_at
UpdateLastTriggered ==
  /\ apc = "update"
  /\ alerts' = [alerts EXCEPT ![loaded[ai].id].last_triggered_at = eval_now]
  /\ NextAlert
  /\ UNCHANGED <<scanVars, clientVars, otherVars, rollVars, probeVars, mgrVars, alert_events, eval_now, loaded,
                 wsAlert, clock, faults>>

\* The error of an alert's evaluation leaves eval_cycle, as without the
\* try of lines 52-55.
AlertErrorRaised ==
  /\ apc' = "idle"
  /\ ai' = 0
  /\ observed' = NoValue
  /\ UNCHANGED last_eval_ts

\* eval_cycle, lines 52-55: the handler logs the error of an alert's
\* evaluation and the loop goes on.
AlertErrorHandled == NextAlert

\* A database call of evaluate_alert raises.
EvalAlertDbError ==
  /\ apc \in {"eval", "event", "update"}
  /\ Fault
  /\ AlertErrorHandled
  /\ UNCHANGED <<scanVars, clientVars, otherVars, rollVars, probeVars, mgrVars, alerts, alert_events, eval_now,
                 loaded, wsAlert, clock>>

\* eval_cycle, line 59: set_state("alert_eval_cursor")
EvalSaveCursor ==
  /\ apc = "cursor"
  /\ wsAlert' = << [last_eval_ts |-> eval_now] >>
  /\ apc' = "idle"
  /\ eval_now' = 0
  /\ loaded' = <<>>
  /\ ai' = 0
  /\ UNCHANGED <<scanVars, clientVars, otherVars, rollVars, probeVars, mgrVars, alerts, alert_events, observed,
                 last_eval_ts, clock, faults>>

\* The cursor write raises; run's handler (lines 33-35) logs it.
EvalCursorDbError ==
  /\ apc = "cursor"
  /\ Fault
  /\ apc' = "idle"
  /\ eval_now' = 0
  /\ loaded' = <<>>
  /\ ai' = 0
  /\ UNCHANGED <<scanVars, clientVars, otherVars, rollVars, probeVars, mgrVars, alerts, alert_events, observed,
                 last_eval_ts, wsAlert, clock>>

\* The process restarts: __init__ and run's lines 25-27 load the cursor.
AlertRestart ==
  /\ Fault
  /\ apc' = "idle"
  /\ last_eval_ts' = LoadEvalCursor
  /\ eval_now' = 0
  /\ loaded' = <<>>
  /\ ai' = 0
  /\ observed' = NoValue
  /\ UNCHANGED <<scanVars, clientVars, otherVars, rollVars, probeVars, mgrVars, alerts, alert_events, wsAlert,
                 clock>>

\* ---------------------------------------------------------- ProviderProbe

\* The rows of table rpc_endpoints.
EndpointIds == 1..4

\* The endpoints active when the worker starts.
InitiallyActive == 1..2

\* WorkerConfig.max_concurrent_probes
max_concurrent_probes == 3

\* rpc_endpoints.url: the url of endpoint e in its version v
Url(e, v) == <<e, v>>

\* Probe cycles per behaviour.
MaxProbeCycles == 2

\* latency_ms = None
NoLatency == -1

\* block_number = None
NoBlockNumber == 0

\* The latencies a successful eth_blockNumber may take, in milliseconds.
Latencies == {120, 1151, 1200}

\* calculate_score, line 35: max(0, ...)
FinalScore(x) == Max(0, x)

\* calculate_score without the cap of the error penalty.
calculate_scoreUncapped(latency_ms, cf, block_lag) ==
  LET latency_penalty50 ==
        IF latency_ms # NoLatency /\ latency_ms > 200
          THEN Min(30 * 50, latency_ms - 200)
          ELSE 0
      final50 == FinalScore(50 * (100 - cf * 25 - block_lag * 10) - latency_penalty50)
  IN final50 \div 50

\* calculate_score, lines 21-37. The latency penalty (latency_ms - 200) / 50
\* is a float: the sum is computed in fiftieths of a point and int() drops
\* the fraction of the non-negative result.
calculate_score(latency_ms, cf, block_lag) ==
  LET latency_penalty50 ==
        IF latency_ms # NoLatency /\ latency_ms > 200
          THEN Min(30 * 50, latency_ms - 200)
          ELSE 0
      error_penalty == Min(75, cf * 25)
      block_lag_penalty == block_lag * 10
      final50 == FinalScore(50 * (100 - error_penalty - block_lag_penalty)
                              - latency_penalty50)
  IN IF final50 >= 0 THEN final50 \div 50 ELSE -((-final50) \div 50)

\* The arguments calculate_score is called with: a latency or None, and
\* failure and lag counts up to these.
ScoreLatencies == {NoLatency, 120, 200, 450, 1151, 1700}
MaxScoreFailures == 4
MaxScoreLag == 3

NoScoreArgs == <<NoLatency, 0, 0>>

\* A call of calculate_score, lines 5-37.
CalculateScore(latency_ms, cf, block_lag) ==
  /\ score_args' = <<latency_ms, cf, block_lag>>
  /\ score_ret' = calculate_score(latency_ms, cf, block_lag)
  /\ UNCHANGED <<scanVars, rollVars, alertVars, probeVars, mgrVars, clientVars,
                 mainVars, decodeVars, clock, faults>>

\* score_to_status with the bounds included.
score_to_statusInclusive(score) ==
  IF score >= 80 THEN "healthy"
  ELSE IF score >= 50 THEN "degraded"
  ELSE "unhealthy"

\* score_to_status, lines 40-47
score_to_status(score) ==
  IF score > 80 THEN "healthy"
  ELSE IF score > 50 THEN "degraded"
  ELSE "unhealthy"

\* What probe_endpoint hands back to gather: a dict, or the exception it raised.
NoResult ==
  [kind |-> "none", endpoint_id |-> 0, score |-> 0, status |-> "",
   latency_ms |-> NoLatency, block_number |-> NoBlockNumber,
   is_success |-> FALSE, supports_traces |-> FALSE]

\* probe_endpoint, lines 111-118 and 136-143
ProbeResult(e, latency_ms, block_number, is_success, cf) ==
  LET block_lag == IF block_number # NoBlockNumber /\ leader_block > 0
                     THEN Max(0, leader_block - block_number) ELSE 0
      score == calculate_score(latency_ms, cf, block_lag)
  IN [kind |-> "dict", endpoint_id |-> e, score |-> score,
      status |-> score_to_status(score), latency_ms |-> latency_ms,
      block_number |-> block_number, is_success |-> is_success,
      supports_traces |-> FALSE]

\* probe_cycle, lines 37-39: SELECT ... WHERE is_active = true
RECURSIVE ActiveEndpoints(_)
ActiveEndpoints(id) ==
  IF id \notin EndpointIds THEN <<>>
  ELSE (IF rpc_endpoints[id].is_active THEN <<id>> ELSE <<>>)
       \o ActiveEndpoints(id + 1)

\* probe_cycle, lines 55-57: the highest block number among the results
RECURSIVE LeaderOf(_, _)
LeaderOf(i, leader) ==
  IF i > Len(endpoints) THEN leader
  ELSE LET r == results[endpoints[i]]
       IN LeaderOf(i + 1,
                   IF r.kind = "dict" /\ r.block_number # NoBlockNumber
                     THEN Max(leader, r.block_number) ELSE leader)

\* probe_cycle, lines 37-52: the endpoints are loaded, leader_block is reset
\* and gather starts a probe_endpoint per endpoint, each up to its RPC call.
ProbeCycleStartUpTo(limit) ==
  /\ ppc = "idle"
  /\ probe_cycles < limit
  /\ probe_cycles' = probe_cycles + 1
  /\ endpoints' = ActiveEndpoints(1)
  /\ IF ActiveEndpoints(1) = <<>>
       THEN UNCHANGED <<leader_block, probing, results, ppc>>
       ELSE /\ leader_block' = 0
            /\ probing' = [e \in EndpointIds |->
                             IF rpc_endpoints[e].is_active THEN "rpc" ELSE "none"]
            /\ results' = [e \in EndpointIds |-> NoResult]
            /\ ppc' = "gather"
  /\ UNCHANGED <<scanVars, clientVars, otherVars, rollVars, alertVars, mgrVars, rpc_endpoints,
                 rpc_health_samples, consecutive_failures, ui, clock, faults>>

\* A probe cycle of a behaviour of at most MaxProbeCycles cycles.
ProbeCycleStart == ProbeCycleStartUpTo(MaxProbeCycles)

\* probe_endpoint, lines 84-89 and 111-118: eth_blockNumber answers.
ProbeSucceeds(e) ==
  /\ ppc = "gather"
  /\ probing[e] = "rpc"
  /\ \E latency_ms \in Latencies, block_number \in {tip - 1, tip} :
       results' = [results EXCEPT
                     ![e] = ProbeResult(e, latency_ms, block_number, TRUE, 0)]
  /\ consecutive_failures' = [consecutive_failures EXCEPT ![e] = 0]
  /\ probing' = [probing EXCEPT ![e] = "sample"]
  /\ UNCHANGED <<scanVars, clientVars, otherVars, rollVars, alertVars, mgrVars, rpc_endpoints,
                 rpc_health_samples, leader_block, ppc, endpoints, ui,
                 probe_cycles, clock, faults>>

\* ProbeFails with the counter set to 1 instead of incremented.
ProbeFailsNoCount(e) ==
  /\ ppc = "gather"
  /\ probing[e] = "rpc"
  /\ consecutive_failures' = [consecutive_failures EXCEPT ![e] = 1]
  /\ results' = [results EXCEPT
                   ![e] = ProbeResult(e, NoLatency, NoBlockNumber, FALSE, 1)]
  /\ probing' = [probing EXCEPT ![e] = "sample"]
  /\ UNCHANGED <<scanVars, clientVars, otherVars, rollVars, alertVars, mgrVars, rpc_endpoints,
                 rpc_health_samples, leader_block, ppc, endpoints, ui,
                 probe_cycles, clock, faults>>

\* probe_endpoint, lines 99-118: eth_blockNumber raises.
ProbeFails(e) ==
  /\ ppc = "gather"
  /\ probing[e] = "rpc"
  /\ consecutive_failures' =
       [consecutive_failures EXCEPT ![e] = consecutive_failures[e] + 1]
  /\ results' = [results EXCEPT
                   ![e] = ProbeResult(e, NoLatency, NoBlockNumber, FALSE,
                                      consecutive_failures[e] + 1)]
  /\ probing' = [probing EXCEPT ![e] = "sample"]
  /\ UNCHANGED <<scanVars, clientVars, otherVars, rollVars, alertVars, mgrVars, rpc_endpoints,
                 rpc_health_samples, leader_block, ppc, endpoints, ui,
                 probe_cycles, clock, faults>>

\* Table rpc_health_samples is only ever appended to: per endpoint, the
\* number of its rows and the last of them.
NoSamples ==
  [e \in EndpointIds |->
     [count |-> 0,
      last |-> [endpoint_id |-> e, sampled_at |-> 0, latency_ms |-> NoLatency,
                block_number |-> NoBlockNumber, is_success |-> FALSE]]]

\* probe_endpoint, lines 122-134: INSERT INTO rpc_health_samples
InsertSample(table, row) ==
  [table EXCEPT ![row.endpoint_id] = [count |-> @.count + 1, last |-> row]]

\* probe_endpoint, lines 120-143: the sample is inserted and the dict returned.
ProbeSample(e) ==
  /\ ppc = "gather"
  /\ probing[e] = "sample"
  /\ rpc_health_samples' = InsertSample(rpc_health_samples,
       [endpoint_id |-> e, sampled_at |-> clock,
        latency_ms |-> results[e].latency_ms,
        block_number |-> results[e].block_number,
        is_success |-> results[e].is_success])
  /\ probing' = [probing EXCEPT ![e] = "done"]
  /\ UNCHANGED <<scanVars, clientVars, otherVars, rollVars, alertVars, mgrVars, rpc_endpoints,
                 consecutive_failures, leader_block, ppc, endpoints, results,
                 ui, probe_cycles, clock, faults>>

\* The insert of the sample raises: gather collects the exception.
ProbeSampleDbError(e) ==
  /\ ppc = "gather"
  /\ probing[e] = "sample"
  /\ Fault
  /\ results' = [results EXCEPT ![e] = [NoResult EXCEPT !.kind = "exception"]]
  /\ probing' = [probing EXCEPT ![e] = "done"]
  /\ UNCHANGED <<scanVars, clientVars, otherVars, rollVars, alertVars, mgrVars, rpc_endpoints,
                 rpc_health_samples, consecutive_failures, leader_block, ppc,
                 endpoints, ui, probe_cycles, clock>>

\* probe_cycle, lines 49-57: gather returns; leader_block is computed.
ProbeGathered ==
  /\ ppc = "gather"
  /\ \A i \in 1..Len(endpoints) : probing[endpoints[i]] = "done"
  /\ leader_block' = LeaderOf(1, leader_block)
  /\ ui' = 1
  /\ ppc' = "update"
  /\ UNCHANGED <<scanVars, clientVars, otherVars, rollVars, alertVars, mgrVars, rpc_endpoints,
                 rpc_health_samples, consecutive_failures, endpoints, probing,
                 results, probe_cycles, clock, faults>>

\* probe_cycle returns or raises: its locals are gone.
ProbeCycleReturns ==
  /\ ppc' = "idle"
  /\ endpoints' = <<>>
  /\ probing' = [e \in EndpointIds |-> "none"]
  /\ results' = [e \in EndpointIds |-> NoResult]
  /\ ui' = 0

\* update_endpoint without supports_traces in its SET list.
update_endpointKeepTraces(e, result) ==
  [rpc_endpoints EXCEPT ![e] =
     [@ EXCEPT !.score = result.score, !.status = result.status,
               !.last_probe_at = clock]]

\* update_endpoint, lines 147-162
update_endpoint(e, result) ==
  [rpc_endpoints EXCEPT ![e] =
     [@ EXCEPT !.score = result.score, !.status = result.status,
               !.supports_traces = result.supports_traces,
               !.last_probe_at = clock]]

\* probe_cycle, lines 60-66: the next result is processed.
ProbeUpdate ==
  /\ ppc = "update"
  /\ LET e == endpoints[ui]
     IN rpc_endpoints' = IF results[e].kind = "dict"
                           THEN update_endpoint(e, results[e])
                           ELSE rpc_endpoints
  /\ IF ui + 1 > Len(endpoints)
       THEN ProbeCycleReturns
       ELSE /\ ui' = ui + 1
            /\ UNCHANGED <<ppc, endpoints, probing, results>>
  /\ UNCHANGED <<scanVars, clientVars, otherVars, rollVars, alertVars, mgrVars, rpc_health_samples,
                 consecutive_failures, leader_block, probe_cycles, clock, faults>>

\* update_endpoint's UPDATE raises: probe_cycle ends in run's handler
\* (lines 30-32) and the remaining endpoints are not updated.
ProbeUpdateDbError ==
  /\ ppc = "update"
  /\ results[endpoints[ui]].kind = "dict"
  /\ Fault
  /\ ProbeCycleReturns
  /\ UNCHANGED <<scanVars, clientVars, otherVars, rollVars, alertVars, mgrVars, rpc_endpoints,
                 rpc_health_samples, consecutive_failures, leader_block,
                 probe_cycles, clock>>

\* The process restarts: __init__ (lines 18-20).
ProbeRestart ==
  /\ Fault
  /\ consecutive_failures' = [e \in EndpointIds |-> 0]
  /\ leader_block' = 0
  /\ ProbeCycleReturns
  /\ UNCHANGED <<scanVars, clientVars, otherVars, rollVars, alertVars, mgrVars, rpc_endpoints,
                 rpc_health_samples, probe_cycles, clock>>

\* -------------------------------------------------------- ProviderManager

\* Writes to rpc_endpoints from outside the manager per behaviour.
MaxWrites == 2

\* No client cached for an id / no url.
NoClient == Url(0, 0)

\* fetch_one returned no row.
NoRow == [id |-> 0, url |-> NoClient]

\* should_switch has not been called.
NoSwitch == [current_id |-> 0, now |-> 0, last |-> 0, ret |-> "none"]

\* No call of the manager has returned yet.
NoReturn ==
  [op |-> "none", query |-> "none", id |-> 0, client |-> NoClient,
   raised |-> FALSE]

\* WHERE is_active = true
ActiveIds == {e \in EndpointIds : rpc_endpoints[e].is_active}

\* WHERE is_active = true AND status = 'healthy'
HealthyIds == {e \in ActiveIds : rpc_endpoints[e].status = "healthy"}

\* TraceIds without the status: any active endpoint with the flag.
TraceIdsAnyStatus == {e \in ActiveIds : rpc_endpoints[e].supports_traces}

\* WHERE is_active = true AND supports_traces = true AND status = 'healthy'
TraceIds == {e \in HealthyIds : rpc_endpoints[e].supports_traces}

\* SELECT id, url ... LIMIT 1 without the ORDER BY.
TopRowsUnordered(ids) ==
  {[id |-> e, url |-> rpc_endpoints[e].url] : e \in ids}

\* SELECT id, url ... ORDER BY score DESC LIMIT 1: the rows the query may
\* return, one per endpoint of the highest score.
TopRows(ids) ==
  {[id |-> e, url |-> rpc_endpoints[e].url] :
     e \in {x \in ids : \A y \in ids :
                          rpc_endpoints[y].score <= rpc_endpoints[x].score}}

\* load_providers, lines 23-34
load_providers ==
  [e \in EndpointIds |->
     IF rpc_endpoints[e].is_active THEN rpc_endpoints[e].url ELSE NoClient]

\* get_primary, lines 68-69 / get_trace_provider, lines 91-92: a client is
\* created from the row's url only when the id has none cached.
CacheClient(row) ==
  IF providers[row.id] = NoClient
    THEN [providers EXCEPT ![row.id] = row.url]
    ELSE providers

\* get_primary, lines 66-71 / get_trace_provider, lines 89-94
ReturnClient(op, query, row) ==
  /\ providers' = CacheClient(row)
  /\ returned' = [op |-> op, query |-> query, id |-> row.id,
                  client |-> CacheClient(row)[row.id], raised |-> FALSE]
  /\ mpc' = "idle"

\* get_primary, lines 40-41: the call starts; an empty cache is loaded first.
GetPrimaryCall ==
  /\ mpc = "idle"
  /\ providers' = IF \A e \in EndpointIds : providers[e] = NoClient
                    THEN load_providers ELSE providers
  /\ returned' = NoReturn
  /\ mpc' = "primary_healthy"
  /\ UNCHANGED <<scanVars, clientVars, otherVars, rollVars, alertVars, probeVars, last_switch_time,
                 sw, writes, clock, faults>>

\* get_primary, lines 43-52 and 66-71: the query for healthy endpoints
GetPrimaryHealthy ==
  /\ mpc = "primary_healthy"
  /\ IF TopRows(HealthyIds) # {}
       THEN \E row \in TopRows(HealthyIds) : ReturnClient("get_primary", "healthy", row)
       ELSE /\ mpc' = "primary_fallback"
            /\ UNCHANGED <<providers, returned>>
  /\ UNCHANGED <<scanVars, clientVars, otherVars, rollVars, alertVars, probeVars, last_switch_time,
                 sw, writes, clock, faults>>

\* get_primary, lines 52-71: the fallback query; without a row it raises
\* RuntimeError.
GetPrimaryFallback ==
  /\ mpc = "primary_fallback"
  /\ IF TopRows(ActiveIds) # {}
       THEN \E row \in TopRows(ActiveIds) :
              ReturnClient("get_primary", "fallback", row)
       ELSE /\ returned' = [NoReturn EXCEPT !.op = "get_primary",
                                            !.query = "fallback", !.raised = TRUE]
            /\ mpc' = "idle"
            /\ UNCHANGED providers
  /\ UNCHANGED <<scanVars, clientVars, otherVars, rollVars, alertVars, probeVars, last_switch_time,
                 sw, writes, clock, faults>>

\* get_trace_provider, line 75: the call starts.
GetTraceProviderCall ==
  /\ mpc = "idle"
  /\ returned' = NoReturn
  /\ mpc' = "trace"
  /\ UNCHANGED <<scanVars, clientVars, otherVars, rollVars, alertVars, probeVars, providers,
                 last_switch_time, sw, writes, clock, faults>>

\* get_trace_provider, lines 75-94
GetTraceProvider ==
  /\ mpc = "trace"
  /\ IF TopRows(TraceIds) # {}
       THEN \E row \in TopRows(TraceIds) :
              ReturnClient("get_trace_provider", "trace", row)
       ELSE /\ returned' = [NoReturn EXCEPT !.op = "get_trace_provider",
                                            !.query = "trace"]
            /\ mpc' = "idle"
            /\ UNCHANGED providers
  /\ UNCHANGED <<scanVars, clientVars, otherVars, rollVars, alertVars, probeVars, last_switch_time,
                 sw, writes, clock, faults>>

\* A query of the manager raises: the call ends with the database's error.
ManagerDbError ==
  /\ mpc # "idle"
  /\ Fault
  /\ returned' = [NoReturn EXCEPT !.op = "db_error", !.raised = TRUE]
  /\ mpc' = "idle"
  /\ UNCHANGED <<scanVars, clientVars, otherVars, rollVars, alertVars, probeVars, providers,
                 last_switch_time, sw, writes, clock>>

\* ProviderManager.switch_cooldown, seconds
switch_cooldown == 30

\* should_switch, line 113: the score below which a switch is recommended
SwitchScore == 50

\* InSwitchCooldown with the bound included.
InSwitchCooldownInclusive(now) == now - last_switch_time <= switch_cooldown

\* should_switch, line 105
InSwitchCooldown(now) == now - last_switch_time < switch_cooldown

\* should_switch, lines 104-106: now is taken; inside the cooldown the call
\* returns False at once. The id may be one without a row (0).
ShouldSwitchCall(current_id) ==
  /\ mpc = "idle"
  /\ IF InSwitchCooldown(clock)
       THEN /\ sw' = [current_id |-> current_id, now |-> clock,
                      last |-> last_switch_time, ret |-> "false"]
            /\ UNCHANGED mpc
       ELSE /\ sw' = [current_id |-> current_id, now |-> clock,
                      last |-> last_switch_time, ret |-> "pending"]
            /\ mpc' = "switch"
  /\ UNCHANGED <<scanVars, clientVars, otherVars, rollVars, alertVars, probeVars, providers,
                 last_switch_time, returned, writes, clock, faults>>

\* should_switch, lines 108-117: the score is read.
ShouldSwitchQuery ==
  /\ mpc = "switch"
  /\ IF sw.current_id \notin EndpointIds
        \/ rpc_endpoints[sw.current_id].score < SwitchScore
       THEN /\ last_switch_time' = sw.now
            /\ sw' = [sw EXCEPT !.ret = "true"]
       ELSE /\ sw' = [sw EXCEPT !.ret = "false"]
            /\ UNCHANGED last_switch_time
  /\ mpc' = "idle"
  /\ UNCHANGED <<scanVars, clientVars, otherVars, rollVars, alertVars, probeVars, providers,
                 returned, writes, clock, faults>>

\* The scores a probe result may carry: three failures in a row, two
\* failures in a row, a success after 600 ms.
ProbedScores ==
  {calculate_score(NoLatency, 3, 0), calculate_score(NoLatency, 2, 0),
   calculate_score(600, 0, 0)}

\* A write to rpc_endpoints from outside the manager.
Write == writes < MaxWrites /\ writes' = writes + 1

\* The probe writes a result for endpoint e (update_endpoint).
EndpointProbed(e) ==
  /\ Write
  /\ \E score \in ProbedScores :
       rpc_endpoints' = update_endpoint(e,
         [NoResult EXCEPT !.kind = "dict", !.endpoint_id = e, !.score = score,
                          !.status = score_to_status(score)])
  /\ UNCHANGED <<scanVars, clientVars, otherVars, rollVars, alertVars, providers, last_switch_time, mpc, returned, sw,
                 rpc_health_samples, consecutive_failures, leader_block, ppc,
                 endpoints, probing, results, ui, probe_cycles, clock, faults>>

\* An operator switches endpoint e on or off.
EndpointSetActive(e) ==
  /\ Write
  /\ rpc_endpoints' = [rpc_endpoints EXCEPT ![e].is_active = ~@]
  /\ UNCHANGED <<scanVars, clientVars, otherVars, rollVars, alertVars, providers, last_switch_time, mpc, returned, sw,
                 rpc_health_samples, consecutive_failures, leader_block, ppc,
                 endpoints, probing, results, ui, probe_cycles, clock, faults>>

\* An operator changes the url of endpoint e.
EndpointSetUrl(e) ==
  /\ Write
  /\ rpc_endpoints' = [rpc_endpoints EXCEPT ![e].url = Url(e, 1 - @[2])]
  /\ UNCHANGED <<scanVars, clientVars, otherVars, rollVars, alertVars, providers, last_switch_time, mpc, returned, sw,
                 rpc_health_samples, consecutive_failures, leader_block, ppc,
                 endpoints, probing, results, ui, probe_cycles, clock, faults>>

\* An operator marks endpoint e as supporting traces.
EndpointSetTraces(e) ==
  /\ Write
  /\ ~rpc_endpoints[e].supports_traces
  /\ rpc_endpoints' = [rpc_endpoints EXCEPT ![e].supports_traces = TRUE]
  /\ UNCHANGED <<scanVars, clientVars, otherVars, rollVars, alertVars, providers, last_switch_time, mpc, returned, sw,
                 rpc_health_samples, consecutive_failures, leader_block, ppc,
                 endpoints, probing, results, ui, probe_cycles, clock, faults>>

\* -------------------------------------------------------------- RPCClient

\* Calls of one client per behaviour.
MaxCalls == 4

Methods == {"eth_blockNumber", "eth_getBlockByNumber"}

\* JSON-RPC error objects a node may answer with.
NodeErrorCodes == {-32000, 3}
NodeErrorMessages == {"header not found", "execution reverted"}

\* What may come back for a posted request: a response with a result (null
\* included), a response with an error object, a body that is not JSON, a
\* non-2xx status, a connection failure, a timeout.
NoResponse == [kind |-> "none", status |-> 0, code |-> 0, message |-> "", result |-> "null"]
Responses ==
  {[NoResponse EXCEPT !.kind = "result", !.status = 200, !.result = r] :
      r \in {"0x64", "null"}}
  \cup {[NoResponse EXCEPT !.kind = "error", !.status = 200, !.code = c, !.message = t] :
      c \in NodeErrorCodes, t \in NodeErrorMessages}
  \cup {[NoResponse EXCEPT !.kind = "not_json", !.status = 200],
        [NoResponse EXCEPT !.kind = "http_status", !.status = 503],
        [NoResponse EXCEPT !.kind = "connect_error"],
        [NoResponse EXCEPT !.kind = "timeout"]}

NoPayload == [method |-> "", id |-> 0]
NoOutcome == [kind |-> "none", result |-> "null", code |-> 0, message |-> <<>>]

\* RPCError(code, message); a message is the sequence of the parts the
\* f-strings put together.
RPCError(code, message) ==
  [NoOutcome EXCEPT !.kind = "RPCError", !.code = code, !.message = message]

\* str(e) of an RPCError: "RPC Error {code}: {message}"
StrRPCError(e) == <<"RPC Error ", e.code, ": ">> \o e.message

\* call, lines 53-58: the except clauses, tried in order, for what the try
\* block raised. RPCError is an Exception and neither of the httpx ones, so
\* the last clause takes it.
ExceptClauses(raised) ==
  CASE raised.kind = "TimeoutException" -> RPCError(-32001, <<"Request timeout">>)
    [] raised.kind = "HTTPError" -> RPCError(-32002, <<"HTTP error: ", raised.text>>)
    [] raised.kind = "RPCError" ->
         RPCError(-32003, <<"Unknown error: ">> \o StrRPCError(raised.error))
    [] OTHER -> RPCError(-32003, <<"Unknown error: ", raised.text>>)

\* call, lines 38-51: what the try block does with the node's answer: it
\* returns data.get("result") or raises.
TryBlock(resp) ==
  CASE resp.kind = "timeout" -> [kind |-> "TimeoutException", text |-> "timed out"]
    [] resp.kind = "connect_error" -> [kind |-> "HTTPError", text |-> "connection refused"]
    [] resp.kind = "http_status" -> [kind |-> "HTTPError", text |-> "status error"]
    [] resp.kind = "not_json" -> [kind |-> "ValueError", text |-> "not JSON"]
    [] resp.kind = "error" ->
         [kind |-> "RPCError", error |-> RPCError(resp.code, <<resp.message>>)]
    [] OTHER -> [kind |-> "return", result |-> resp.result]

\* call, lines 27-41: the request id is advanced and the payload posted.
RpcCall(method) ==
  /\ cpc = "idle"
  /\ request_id < MaxCalls
  /\ request_id' = request_id + 1
  /\ payload' = [method |-> method, id |-> request_id + 1]
  /\ cpc' = "post"
  /\ UNCHANGED <<scanVars, otherVars, rollVars, alertVars, probeVars, mgrVars, response,
                 outcome, clock, faults>>

\* call, lines 41-58: the node's answer arrives (or none does) and the call
\* ends.
RpcReturn(resp) ==
  /\ cpc = "post"
  /\ response' = resp
  /\ outcome' = LET t == TryBlock(resp)
                IN IF t.kind = "return"
                     THEN [NoOutcome EXCEPT !.kind = "result", !.result = t.result]
                     ELSE ExceptClauses(t)
  /\ cpc' = "idle"
  /\ UNCHANGED <<scanVars, otherVars, rollVars, alertVars, probeVars, mgrVars, request_id,
                 payload, clock, faults>>

\* ------------------------------------------------------------------ Worker

\* Worker.start, lines 39-44: the tasks of the four pipelines.
Pipelines == {"provider_probe", "block_scanner", "metrics_rollup", "alert_evaluator"}

\* probe_cycle, lines 49-52: the probe_endpoint tasks gather creates, one
\* per active endpoint (two).
ProbeTasks == {"probe_endpoint_1", "probe_endpoint_2"}

Tasks == Pipelines \cup ProbeTasks

\* A task that is suspended in an await.
Suspended == {"call", "sleep", "error_sleep"}

\* What every action of the worker's lifecycle leaves alone.
notMain == <<scanVars, rollVars, alertVars, probeVars, mgrVars, clientVars, scoreVars,
             decodeVars, clock, faults>>

\* A task starts a database or RPC call: the call is late if disconnect
\* has been called.
StartsCall(t) ==
  late_calls' = IF pool = "closed" THEN late_calls \cup {t} ELSE late_calls

\* run with a handler that catches the cancellation as well.
RunHandlerCatchesAll(cancelled) == "error_sleep"

\* run, lines 28-38: `except Exception` catches the error of a cycle and
\* sleeps; CancelledError is a BaseException, it leaves run and the task is
\* done.
RunHandler(cancelled) == IF cancelled THEN "done" ELSE "error_sleep"

\* task.cancel(), stop line 56: a task that is not done is to be cancelled;
\* a task waiting in gather passes the request on to the tasks gathered.
Cancel(ts) ==
  {t \in ts : tasks[t] # "done"}
    \cup (IF "provider_probe" \in ts /\ tasks["provider_probe"] = "gather"
           THEN {c \in ProbeTasks : tasks[c] # "done"} ELSE {})

\* main, lines 77-79, and handle_signal: SIGTERM or SIGINT arrives.
handle_signal ==
  /\ wpc # "exited"
  /\ ~shutdown_event
  /\ shutdown_event' = TRUE
  /\ UNCHANGED <<wpc, pool, tasks, cancelling, late_calls, connect_failed, notMain>>

\* start, lines 35-47: db.connect returns, the tasks are created and main
\* waits for the event; with the event already set the wait returns at
\* once and stop cancels the tasks (lines 55-56) before any of them ran.
StartConnected ==
  /\ wpc = "connect"
  /\ pool' = "open"
  /\ tasks' = [t \in Tasks |-> IF t \in Pipelines THEN "ready" ELSE "none"]
  /\ IF shutdown_event
       THEN wpc' = "gather" /\ cancelling' = Pipelines
       ELSE wpc' = "wait" /\ UNCHANGED cancelling
  /\ UNCHANGED <<shutdown_event, late_calls, connect_failed, notMain>>

\* start, line 35: db.connect raises. No task was created: stop (main,
\* lines 83-84) has nothing to cancel or gather, disconnect finds no pool,
\* and the error leaves main and asyncio.run.
StartConnectFails ==
  /\ wpc = "connect"
  /\ connect_failed' = TRUE
  /\ wpc' = "exited"
  /\ UNCHANGED <<shutdown_event, pool, tasks, cancelling, late_calls, notMain>>

\* start, line 47, and stop, lines 55-59: the wait returns, every task is
\* cancelled and main waits for them in gather.
StopCancels ==
  /\ wpc = "wait"
  /\ shutdown_event
  /\ cancelling' = Cancel(Pipelines)
  /\ wpc' = "gather"
  /\ UNCHANGED <<shutdown_event, pool, tasks, late_calls, connect_failed, notMain>>

\* stop, lines 59-62: gather returns when the four tasks are done, and
\* db.disconnect is called.
StopDisconnects ==
  /\ wpc = "gather"
  /\ \A p \in Pipelines : tasks[p] = "done"
  /\ pool' = "closed"
  /\ wpc' = "disconnect"
  /\ UNCHANGED <<shutdown_event, tasks, cancelling, late_calls, connect_failed, notMain>>

\* stop, lines 62-63, and main: the pool is closed and the process ends.
StopReturns ==
  /\ wpc = "disconnect"
  /\ wpc' = "exited"
  /\ UNCHANGED <<shutdown_event, pool, tasks, cancelling, late_calls, connect_failed, notMain>>

\* A pipeline's task runs for the first time: run reaches the first call
\* of its cycle; a task cancelled before is done without running.
TaskStarts(p) ==
  /\ tasks[p] = "ready"
  /\ IF p \in cancelling
       THEN /\ tasks' = [tasks EXCEPT ![p] = "done"]
            /\ cancelling' = cancelling \ {p}
            /\ UNCHANGED late_calls
       ELSE /\ tasks' = [tasks EXCEPT ![p] = "call"]
            /\ StartsCall(p)
            /\ UNCHANGED cancelling
  /\ UNCHANGED <<wpc, shutdown_event, pool, connect_failed, notMain>>

\* A call of a pipeline's cycle returns: the cycle goes on with its next
\* call, or it is over and run sleeps.
CallReturns(p, more) ==
  /\ tasks[p] = "call"
  /\ p \notin cancelling
  /\ IF more
       THEN tasks' = tasks /\ StartsCall(p)
       ELSE tasks' = [tasks EXCEPT ![p] = "sleep"] /\ UNCHANGED late_calls
  /\ UNCHANGED <<wpc, shutdown_event, pool, cancelling, connect_failed, notMain>>

\* A call of a pipeline's cycle raises an error.
CallRaises(p) ==
  /\ tasks[p] = "call"
  /\ p \notin cancelling
  /\ tasks' = [tasks EXCEPT ![p] = RunHandler(FALSE)]
  /\ UNCHANGED <<wpc, shutdown_event, pool, cancelling, late_calls, connect_failed, notMain>>

\* run's sleep is over: the next cycle starts with its first call.
SleepReturns(p) ==
  /\ tasks[p] \in {"sleep", "error_sleep"}
  /\ p \notin cancelling
  /\ tasks' = [tasks EXCEPT ![p] = "call"]
  /\ StartsCall(p)
  /\ UNCHANGED <<wpc, shutdown_event, pool, cancelling, connect_failed, notMain>>

\* The cancellation is delivered: CancelledError is raised by the await a
\* pipeline's task is suspended in.
TaskCancelled(p) ==
  /\ p \in cancelling
  /\ tasks[p] \in Suspended
  /\ tasks' = [tasks EXCEPT ![p] = RunHandler(TRUE)]
  /\ cancelling' = cancelling \ {p}
  /\ UNCHANGED <<wpc, shutdown_event, pool, late_calls, connect_failed, notMain>>

\* probe_cycle, lines 37-52: the endpoints are loaded and gather starts a
\* probe_endpoint task for each, which begins with its RPC call.
ProbeGathers ==
  /\ tasks["provider_probe"] = "call"
  /\ "provider_probe" \notin cancelling
  /\ \A c \in ProbeTasks : tasks[c] = "none"
  /\ tasks' = [t \in Tasks |->
                IF t = "provider_probe" THEN "gather"
                ELSE IF t \in ProbeTasks THEN "call" ELSE tasks[t]]
  /\ late_calls' = IF pool = "closed" THEN late_calls \cup ProbeTasks ELSE late_calls
  /\ UNCHANGED <<wpc, shutdown_event, pool, cancelling, connect_failed, notMain>>

\* probe_endpoint, lines 68-143: the RPC call returns or raises and the
\* sample is inserted, or the insert is over (or raised) and the task is
\* done.
ProbeTaskReturns(c, more) ==
  /\ tasks[c] = "call"
  /\ c \notin cancelling
  /\ IF more
       THEN tasks' = tasks /\ StartsCall(c)
       ELSE tasks' = [tasks EXCEPT ![c] = "done"] /\ UNCHANGED late_calls
  /\ UNCHANGED <<wpc, shutdown_event, pool, cancelling, connect_failed, notMain>>

\* The cancellation gather passed on is delivered to a probe_endpoint task.
ProbeTaskCancelled(c) ==
  /\ c \in cancelling
  /\ tasks[c] = "call"
  /\ tasks' = [tasks EXCEPT ![c] = "done"]
  /\ cancelling' = cancelling \ {c}
  /\ UNCHANGED <<wpc, shutdown_event, pool, late_calls, connect_failed, notMain>>

\* probe_cycle, lines 49-66: the gathered tasks are done. gather returns
\* and the cycle goes on with update_endpoint, or, cancelled, it raises
\* CancelledError in probe_cycle.
GatherReturns ==
  /\ tasks["provider_probe"] = "gather"
  /\ \A c \in ProbeTasks : tasks[c] = "done"
  /\ IF "provider_probe" \in cancelling
       THEN /\ tasks' = [tasks EXCEPT !["provider_probe"] = RunHandler(TRUE)]
            /\ cancelling' = cancelling \ {"provider_probe"}
            /\ UNCHANGED late_calls
       ELSE /\ tasks' = [t \in Tasks |->
                           IF t = "provider_probe" THEN "call"
                           ELSE IF t \in ProbeTasks THEN "none" ELSE tasks[t]]
            /\ StartsCall("provider_probe")
            /\ UNCHANGED cancelling
  /\ UNCHANGED <<wpc, shutdown_event, pool, connect_failed, notMain>>

\* ------------------------------------------------------------ error_decoder

\* Revert data as text: a sequence of characters. The ABI-encoded arguments
\* after the selector are kept short: two characters stand for an encoding.
ErrorSelector == <<"0", "8", "c", "3", "7", "9", "a", "0">>
PanicSelector == <<"4", "e", "4", "8", "7", "b", "7", "1">>
CustomSelector == <<"d", "e", "a", "d", "b", "e", "e", "f">>

\* str.lower, on the characters that occur
LowerChar(c) ==
  CASE c = "A" -> "a" [] c = "B" -> "b" [] c = "C" -> "c" [] c = "D" -> "d"
    [] c = "E" -> "e" [] c = "F" -> "f" [] c = "X" -> "x" [] OTHER -> c

Lower(str) == [i \in 1..Len(str) |-> LowerChar(str[i])]

\* str.upper, on the characters that occur
UpperChar(c) ==
  CASE c = "a" -> "A" [] c = "b" -> "B" [] c = "c" -> "C" [] c = "d" -> "D"
    [] c = "e" -> "E" [] c = "f" -> "F" [] c = "x" -> "X" [] OTHER -> c

Upper(str) == [i \in 1..Len(str) |-> UpperChar(str[i])]

\* error_data[a:b] of Python, a and b counted from 0
Slice(str, a, b) == SubSeq(str, a + 1, Min(b, Len(str)))

HexDigits ==
  {"0", "1", "2", "3", "4", "5", "6", "7", "8", "9",
   "a", "b", "c", "d", "e", "f", "A", "B", "C", "D", "E", "F"}

\* bytes.fromhex raises on an odd number of digits or on another character.
FromHexRaises(str) ==
  \/ Len(str) % 2 = 1
  \/ \E i \in 1..Len(str) : str[i] \notin HexDigits

\* The encodings: of the string "insufficient balance", and of the
\* integers 1, 17 and 99.
EncodedString == <<"a", "a">>
EncodedInts == {<<<<"0", "1">>, 1>>, <<<<"1", "1">>, 17>>, <<<<"6", "3">>, 99>>}

\* eth_abi.decode(["string"], data) raises unless data encodes a string.
DecodeStringRaises(str) == FromHexRaises(str) \/ Lower(str) # EncodedString

\* eth_abi.decode(["uint256"], data) reads the first word, which for a
\* string's encoding is its offset, 32; it raises when there is none.
DecodeUintRaises(str) ==
  \/ FromHexRaises(str)
  \/ /\ Lower(str) # EncodedString
     /\ \A enc \in EncodedInts : enc[1] # Lower(str)

DecodeUint(str) ==
  IF Lower(str) = EncodedString THEN 32
  ELSE (CHOOSE enc \in EncodedInts : enc[1] = Lower(str))[2]

\* The inputs: with the prefix, without it or with it in capitals; a
\* selector in either case, cut short or missing; encoded arguments, none,
\* or characters that are no encoding.
Prefixes == {<<>>, <<"0", "x">>, <<"0", "X">>}

Selectors ==
  {ErrorSelector, Upper(ErrorSelector), PanicSelector, Upper(PanicSelector),
   CustomSelector, <<"0", "8", "c", "3">>, <<>>}

Arguments ==
  {<<>>, EncodedString, <<"0", "1">>, <<"1", "1">>, <<"6", "3">>,
   <<"z", "z">>, <<"a">>}

ErrorData == {p \o sel \o a : p \in Prefixes, sel \in Selectors, a \in Arguments}

\* None, as a selector
NoSelector == <<"None">>

\* The message returned: a text, with the number or the selector put in.
Message(text, n, sel) == [text |-> text, n |-> n, selector |-> sel]

PlainMessage(text) == Message(text, -1, <<>>)

\* The params returned: None, {"message": ...} or {"code": ...}
NoParams == [key |-> "None", message |-> "", code |-> -1]
MessageParams(msg) == [key |-> "message", message |-> msg, code |-> -1]
CodeParams(n) == [key |-> "code", message |-> "", code |-> n]

\* extract_error_signature, lines 26-36
extract_error_signature(error_data) ==
  IF error_data = <<>> \/ Len(error_data) < 10 THEN NoSelector
  ELSE LET prefixed == IF Slice(error_data, 0, 2) = <<"0", "x">>
                         THEN error_data ELSE <<"0", "x">> \o error_data
       IN Lower(Slice(prefixed, 0, 10))

\* decode_error, lines 39-84, on revert data as text: <<message, params>>.
decode_error_text(error_data) ==
  LET signature == extract_error_signature(error_data)
      rest == Slice(error_data, 10, Len(error_data))
  IN IF error_data = <<>> \/ signature = NoSelector
       THEN <<PlainMessage("Unknown revert"), NoParams>>
     ELSE IF signature = <<"0", "x">> \o ErrorSelector
       THEN IF DecodeStringRaises(rest)
              THEN <<PlainMessage("Error(string)"), NoParams>>
              ELSE <<PlainMessage("insufficient balance"),
                     MessageParams("insufficient balance")>>
     ELSE IF signature = <<"0", "x">> \o PanicSelector
       THEN IF DecodeUintRaises(rest)
              THEN <<PlainMessage("Panic(uint256)"), NoParams>>
              ELSE LET panic_code == DecodeUint(rest)
                   IN <<IF panic_code \in DOMAIN PANIC_CODES
                          THEN PlainMessage(PANIC_CODES[panic_code])
                          ELSE Message("Panic(<n>)", panic_code, <<>>),
                        CodeParams(panic_code)>>
     ELSE <<Message("Custom error <selector>", -1, signature), NoParams>>

\* No call of the decoder yet.
NoDecoded ==
  [error_data |-> <<>>, selector |-> NoSelector,
   message |-> PlainMessage(""), params |-> NoParams]

\* process_transactions, lines 152-153: the selector is extracted and the
\* revert data decoded.
Decode(error_data) ==
  /\ decoded' = [error_data |-> error_data,
                 selector |-> extract_error_signature(error_data),
                 message |-> decode_error_text(error_data)[1],
                 params |-> decode_error_text(error_data)[2]]
  /\ UNCHANGED <<scanVars, rollVars, alertVars, probeVars, mgrVars, clientVars,
                 scoreVars, mainVars, clock, faults>>

\* ------------------------------------------------------------ specification

\* The worker's state after construction, and the chain and the tables it
\* does not own: everything but the tables metrics_minute and alerts.
InitWorker ==
  /\ tip = InitialTip
  /\ chain = [b \in 1..InitialTip |-> 0]
  /\ forks = 0
  /\ txs = <<>>
  /\ wsScan = <<>>
  /\ last_block_hash = NoneHash
  /\ catching_up = FALSE
  /\ last_scanned = 0
  /\ pc = "idle"
  /\ block_num = 0
  /\ batch_end = 0
  /\ block = NoBlock
  /\ reorg_at = 0
  /\ crashed_mid_block = FALSE
  /\ last_bucket_ts = 0
  /\ wsRollup = <<>>
  /\ rpc = "idle"
  /\ target_bucket = 0
  /\ metrics = NoMetrics
  /\ alert_events = <<>>
  /\ apc = "idle"
  /\ eval_now = 0
  /\ loaded = <<>>
  /\ ai = 0
  /\ observed = NoValue
  /\ last_eval_ts = 0
  /\ wsAlert = <<>>
  /\ rpc_endpoints = [e \in EndpointIds |->
                        [is_active |-> e \in InitiallyActive, url |-> Url(e, 0),
                         score |-> 100, status |-> "healthy",
                         supports_traces |-> FALSE, last_probe_at |-> 0]]
  /\ rpc_health_samples = NoSamples
  /\ consecutive_failures = [e \in EndpointIds |-> 0]
  /\ leader_block = 0
  /\ ppc = "idle"
  /\ endpoints = <<>>
  /\ probing = [e \in EndpointIds |-> "none"]
  /\ results = [e \in EndpointIds |-> NoResult]
  /\ ui = 0
  /\ probe_cycles = 0
  /\ providers = [e \in EndpointIds |-> NoClient]
  /\ last_switch_time = 0
  /\ mpc = "idle"
  /\ returned = NoReturn
  /\ sw = NoSwitch
  /\ writes = 0
  /\ request_id = 0
  /\ cpc = "idle"
  /\ payload = NoPayload
  /\ response = NoResponse
  /\ outcome = NoOutcome
  /\ score_args = NoScoreArgs
  /\ decoded = NoDecoded
  /\ score_ret = calculate_score(NoLatency, 0, 0)
  /\ wpc = "connect"
  /\ shutdown_event = FALSE
  /\ pool = "none"
  /\ tasks = [t \in Tasks |-> "none"]
  /\ cancelling = {}
  /\ late_calls = {}
  /\ connect_failed = FALSE
  /\ clock = ClockStart
  /\ faults = 0

\* A fresh database: no metrics yet, and the failure_rate rules.
Init ==
  /\ InitWorker
  /\ metrics_minute = {}
  /\ alerts = AlertRows

\* A database the rollup has filled before, with the gas_spike rules.
InitGas ==
  /\ InitWorker
  /\ metrics_minute \in GasTables
  /\ alerts = GasAlertRows

Next ==
  \/ TipAdvance
  \/ ChainReorg
  \/ ScanCycleRpcError
  \/ ScanCycleStart
  \/ FetchRpcError
  \/ FetchNull
  \/ FetchBlock
  \/ InsertTxs
  \/ InsertTxsSkipOne
  \/ InsertTxsDbError
  \/ PersistCursor
  \/ PersistCursorDbError
  \/ ReorgMark
  \/ ReorgRollback
  \/ ReorgDbError
  \/ NextBlock
  \/ ScanCycleEnd
  \/ CrashRestart

Spec == Init /\ [][Next]_vars

\* The scanner on a chain that advances and reorganises, with RPC calls
\* that fail: eth_blockNumber, eth_getBlockByNumber, or the receipt of one
\* transaction. Database calls succeed and the process keeps running.
NextRpcFaults ==
  \/ TipAdvance
  \/ ChainReorg
  \/ ScanCycleRpcError
  \/ ScanCycleStart
  \/ FetchRpcError
  \/ FetchBlock
  \/ InsertTxs
  \/ InsertTxsSkipOne
  \/ PersistCursor
  \/ ReorgMark
  \/ ReorgRollback
  \/ NextBlock
  \/ ScanCycleEnd

SpecRpcFaults == Init /\ [][NextRpcFaults]_vars

\* A run in which every RPC and database call succeeds and the chain is not
\* reorganised; the process may crash at any suspension point and restart.
NextCrash ==
  \/ TipAdvance
  \/ ScanCycleStart
  \/ FetchBlock
  \/ InsertTxs
  \/ PersistCursor
  \/ NextBlock
  \/ ScanCycleEnd
  \/ CrashRestart

SpecCrash == Init /\ [][NextCrash]_vars

\* The scanner with chain reorganisations and process restarts; every RPC
\* and database call succeeds.
NextRestart ==
  \/ TipAdvance
  \/ ChainReorg
  \/ ScanCycleStart
  \/ FetchBlock
  \/ InsertTxs
  \/ PersistCursor
  \/ ReorgMark
  \/ ReorgRollback
  \/ NextBlock
  \/ ScanCycleEnd
  \/ CrashRestart

SpecRestart == Init /\ [][NextRestart]_vars

\* run, lines 24-38, on a chain whose tip stays where it is, with every RPC
\* and database call succeeding: the loop's steps, and restarts of the
\* process that leave it to start again from whatever cursor is persisted.
ScanLoop ==
  \/ ScanCycleStart
  \/ FetchBlock
  \/ InsertTxs
  \/ PersistCursor
  \/ NextBlock
  \/ ScanCycleEnd

NextScanLoop ==
  \/ ScanCycleStart
  \/ FetchBlock
  \/ InsertTxs
  \/ PersistCursor
  \/ NextBlock
  \/ ScanCycleEnd
  \/ CrashRestart

\* run's `while self.running` awaits scan_cycle and then a finite sleep, and
\* every await of scan_cycle returns: a step of the loop that can be taken
\* is taken.
SpecScanLoop == Init /\ [][NextScanLoop]_vars /\ WF_vars(ScanLoop)

\* The rollup beside a scanner that ingests the chain block by block, with
\* database errors and restarts of the rollup.
NextRollup ==
  \/ Tick
  \/ IngestMined
  \/ RollupCycleStart
  \/ RollupCount
  \/ RollupAggregate
  \/ RollupUpsert
  \/ RollupSave
  \/ RollupDbError
  \/ RollupRestart

SpecRollup == Init /\ [][NextRollup]_vars

\* The alert evaluator beside a scanner that ingests the chain block by
\* block, with database errors and restarts of the evaluator.
NextAlertEval ==
  \/ Tick
  \/ IngestMined
  \/ EvalCycleStart
  \/ EvalCooldownSkip
  \/ EvaluateAlert
  \/ CreateAlertEvent
  \/ UpdateLastTriggered
  \/ EvalAlertDbError
  \/ EvalSaveCursor
  \/ EvalCursorDbError
  \/ AlertRestart

SpecAlert == Init /\ [][NextAlertEval]_vars

\* The provider probe, with RPC failures, database errors and restarts.
NextProbe ==
  \/ ProbeCycleStart
  \/ \E e \in EndpointIds : ProbeSucceeds(e)
  \/ \E e \in EndpointIds : ProbeFails(e)
  \/ \E e \in EndpointIds : ProbeSample(e)
  \/ \E e \in EndpointIds : ProbeSampleDbError(e)
  \/ ProbeGathered
  \/ ProbeUpdate
  \/ ProbeUpdateDbError
  \/ ProbeRestart

SpecProbe == Init /\ [][NextProbe]_vars

\* Probe cycles per behaviour of SpecProbeDown.
MaxFailCycles == 4

\* The endpoint that is down: its eth_blockNumber fails in every cycle.
DownEndpoint == CHOOSE e \in InitiallyActive : \A o \in InitiallyActive : e <= o

\* The probe with one endpoint down for good; the database works and the
\* process keeps running.
NextProbeDown ==
  \/ ProbeCycleStartUpTo(MaxFailCycles)
  \/ \E e \in EndpointIds \ {DownEndpoint} : ProbeSucceeds(e)
  \/ \E e \in EndpointIds : ProbeFails(e)
  \/ \E e \in EndpointIds : ProbeSample(e)
  \/ ProbeGathered
  \/ ProbeUpdate

SpecProbeDown == Init /\ [][NextProbeDown]_vars

\* An operator switches further endpoints on; then one probe cycle runs.
NextProbeMany ==
  \/ \E e \in EndpointIds \ InitiallyActive :
       ppc = "idle" /\ probe_cycles = 0 /\ EndpointSetActive(e)
  \/ probe_cycles = 0 /\ ProbeCycleStart
  \/ \E e \in EndpointIds : ProbeSucceeds(e)
  \/ \E e \in EndpointIds : ProbeFails(e)
  \/ \E e \in EndpointIds : ProbeSample(e)
  \/ ProbeGathered
  \/ ProbeUpdate

SpecProbeMany == Init /\ [][NextProbeMany]_vars

\* The manager's selections while the probe and operators write
\* rpc_endpoints.
NextManager ==
  \/ GetPrimaryCall
  \/ GetPrimaryHealthy
  \/ GetPrimaryFallback
  \/ GetTraceProviderCall
  \/ GetTraceProvider
  \/ ManagerDbError
  \/ \E e \in EndpointIds : EndpointProbed(e)
  \/ \E e \in EndpointIds : EndpointSetActive(e)
  \/ \E e \in EndpointIds : EndpointSetUrl(e)
  \/ \E e \in EndpointIds : EndpointSetTraces(e)

SpecManager == Init /\ [][NextManager]_vars

\* A write to rpc_endpoints.supports_traces from outside the worker, landing
\* anywhere but between two updates of one probe cycle.
SetTracesOutOfBand(e) == ppc # "update" /\ EndpointSetTraces(e)

\* A probe cycle, get_trace_provider calls and out-of-band writes of
\* supports_traces before, during and after it, interleaved; a sample insert
\* may fail, which leaves that endpoint without an update in the cycle.
NextProbeTraces ==
  \/ probe_cycles = 0 /\ ProbeCycleStart
  \/ \E e \in EndpointIds : ProbeSucceeds(e)
  \/ \E e \in EndpointIds : ProbeSample(e)
  \/ \E e \in EndpointIds : ProbeFails(e)
  \/ \E e \in EndpointIds : ProbeSampleDbError(e)
  \/ ProbeGathered
  \/ ProbeUpdate
  \/ \E e \in InitiallyActive : SetTracesOutOfBand(e)
  \/ GetTraceProviderCall
  \/ GetTraceProvider

SpecProbeTraces == Init /\ [][NextProbeTraces]_vars

\* should_switch called again and again, for an endpoint in use or an id
\* without a row, while the clock advances and the probe writes scores.
NextSwitch ==
  \/ Tick
  \/ \E id \in InitiallyActive \cup {0} : ShouldSwitchCall(id)
  \/ ShouldSwitchQuery
  \/ \E e \in InitiallyActive : EndpointProbed(e)

SpecSwitch == Init /\ [][NextSwitch]_vars

\* Evaluation cycles of a process that keeps running, while the clock
\* advances and the scanner ingests; a query or write of an evaluation may
\* raise.
NextAlertRule ==
  \/ Tick
  \/ IngestMined
  \/ EvalCycleStart
  \/ EvalCooldownSkip
  \/ EvaluateAlert
  \/ CreateAlertEvent
  \/ UpdateLastTriggered
  \/ EvalAlertDbError
  \/ EvalSaveCursor

SpecAlertRule == Init /\ [][NextAlertRule]_vars

\* Evaluation cycles of the gas_spike rules over the minutes the rollup
\* wrote, while the clock advances; a query or write of an evaluation may
\* raise.
NextGas ==
  \/ Tick
  \/ EvalCycleStart
  \/ EvalCooldownSkip
  \/ EvaluateAlert
  \/ CreateAlertEvent
  \/ UpdateLastTriggered
  \/ EvalAlertDbError
  \/ EvalSaveCursor

SpecGas == InitGas /\ [][NextGas]_vars

\* Evaluation cycles while rules are disabled through the API
\* and the clock advances; a query or write of an evaluation may raise.
NextAlertToggle ==
  \/ Tick
  \/ IngestMined
  \/ \E id \in AlertIds : update_alert(id, FALSE)
  \/ EvalCycleStart
  \/ EvalCooldownSkip
  \/ EvaluateAlert
  \/ CreateAlertEvent
  \/ UpdateLastTriggered
  \/ EvalAlertDbError
  \/ EvalSaveCursor

SpecAlertToggle == Init /\ [][NextAlertToggle]_vars

\* The worker's lifecycle: start, the four pipeline tasks with their calls,
\* errors and sleeps, a signal at any moment, and stop.
NextWorker ==
  \/ handle_signal
  \/ StartConnected
  \/ StartConnectFails
  \/ StopCancels
  \/ StopDisconnects
  \/ StopReturns
  \/ \E p \in Pipelines : TaskStarts(p)
  \/ \E p \in Pipelines, more \in BOOLEAN : CallReturns(p, more)
  \/ \E p \in Pipelines : CallRaises(p)
  \/ \E p \in Pipelines : SleepReturns(p)
  \/ \E p \in Pipelines : TaskCancelled(p)
  \/ ProbeGathers
  \/ \E c \in ProbeTasks, more \in BOOLEAN : ProbeTaskReturns(c, more)
  \/ \E c \in ProbeTasks : ProbeTaskCancelled(c)
  \/ GatherReturns

SpecWorker == Init /\ [][NextWorker]_vars

\* Calls of calculate_score.
NextScore ==
  \E latency_ms \in ScoreLatencies, cf \in 0..MaxScoreFailures,
     block_lag \in 0..MaxScoreLag :
    CalculateScore(latency_ms, cf, block_lag)

SpecScore == Init /\ [][NextScore]_vars

\* The decoder called with any of the inputs.
NextDecode == \E error_data \in ErrorData : Decode(error_data)

SpecDecode == Init /\ [][NextDecode]_vars

\* One RPCClient called again and again.
NextClient ==
  \/ \E method \in Methods : RpcCall(method)
  \/ \E resp \in Responses : RpcReturn(resp)

SpecClient == Init /\ [][NextClient]_vars

\* ------------------------------------------------------------------ claims

CursorNum == get_last_scanned_block.block_number
CursorHash == get_last_scanned_block.block_hash

Range(seq) == {seq[i] : i \in 1..Len(seq)}

\* C1: the txs table never holds two rows with the same hash, and an insert
\* step for a block whose transactions all have a row already leaves the
\* table as it was.
C1_IdempotentIngest ==
  /\ [](\A i \in 1..Len(txs) : \A j \in 1..(i - 1) :
          txs[i].hash # txs[j].hash)
  /\ [][(pc = "insert" /\ \A h \in Range(block.transactions) : HasHash(txs, h))
          => txs' = txs]_vars

\* C1 witness: a block is scanned again after a reorg rollback; the row of
\* one of its transactions was there before (it carries the tentative mark no
\* insert writes) and the insert step is done.
C1_Witness ==
  /\ pc = "persist"
  /\ \E i \in 1..Len(txs) :
       txs[i].hash \in Range(block.transactions) /\ txs[i].is_tentative

\* C2: the persisted cursor decreases in no step but the rollback write of
\* reorg handling; that write sets it to max(0, n - 20) with hash "0x0" for the
\* block n the reorg was detected at, and ends the handling, so that one
\* detected reorg writes the cursor once.
C2_MonotoneCursor ==
  [][/\ (CursorNum' < CursorNum => pc = "reorg_rollback")
     /\ ((pc = "reorg_rollback" /\ wsScan' # wsScan) =>
           /\ CursorNum' = (IF reorg_at > 20 THEN reorg_at - 20 ELSE 0)
           /\ pc' = "next")
     /\ ((pc = "reorg_rollback" /\ pc' = "next") =>
           wsScan' = <<[block_number |-> IF reorg_at > 20 THEN reorg_at - 20 ELSE 0,
                        block_hash |-> ZeroHash]>>)
     /\ (pc' = "reorg_mark" => (pc = "fetch" /\ reorg_at' = block_num))]_vars

\* C2 witness: reorg handling has just rolled the cursor back from block 20
\* to block 1 after a reorg detected at block 21.
C2_Witness ==
  /\ pc = "next"
  /\ reorg_at = block_num
  /\ reorg_at > 20
  /\ CursorNum = reorg_at - 20
  /\ CursorHash = ZeroHash

\* The rows an uninterrupted run inserts for the blocks 1..n of the chain.
RECURSIVE UninterruptedRows(_)
UninterruptedRows(n) ==
  IF n = 0 THEN <<>>
  ELSE UninterruptedRows(n - 1)
         \o RowsOf(ChainBlock(n), ChainBlock(n).transactions, {})

RowsUpTo(n) == SelectSeq(txs, LAMBDA r : r.block_number <= n)

\* C3: with crashes and restarts, the scanner always works on the block after
\* the persisted cursor, and the rows of the blocks up to the cursor are
\* exactly those of an uninterrupted run: none missing, none twice.
C3_CrashRecovery ==
  /\ pc \in {"fetch", "insert", "persist"} => block_num = CursorNum + 1
  /\ RowsUpTo(CursorNum) = UninterruptedRows(CursorNum)

\* C3 witness: the process crashed after the rows of a block were inserted and
\* before its cursor write; after the restart the cursor has reached the tip
\* and the table is that of an uninterrupted run.
C3_Witness ==
  /\ crashed_mid_block
  /\ CursorNum = tip
  /\ txs = UninterruptedRows(tip)
  /\ txs # <<>>

\* C9: in the states after handle_reorg's UPDATE, up to the return of
\* handle_reorg for a reorg detected at block n, every row with
\* block_number >= n - 10 is tentative.
C9_TentativeWindow ==
  ((pc = "reorg_rollback" \/ (pc = "next" /\ reorg_at = block_num)) /\ reorg_at # 0)
    => \A i \in 1..Len(txs) :
         txs[i].block_number >= reorg_at - 10 => txs[i].is_tentative

\* C9 witness: reorg handling has returned, rows inside the window are
\* tentative and a row below the window is not.
C9_Witness ==
  /\ pc = "next"
  /\ reorg_at = block_num
  /\ reorg_at # 0
  /\ \E i \in 1..Len(txs) :
       txs[i].block_number >= reorg_at - 10 /\ txs[i].is_tentative
  /\ \E i \in 1..Len(txs) :
       txs[i].block_number < reorg_at - 10 /\ ~txs[i].is_tentative

\* C10: once a cycle has detected a reorg at block n it fetches no further
\* block, it inserts no row, and when it ends the persisted cursor is
\* (max(0, n - 20), "0x0") and last_block_hash is unset.
C10_ReorgAbortsCycle ==
  [][/\ ((pc = "next" /\ reorg_at # 0) => pc' # "fetch")
     /\ (reorg_at # 0 /\ reorg_at' = reorg_at => txs' = txs \/ pc = "reorg_mark")
     /\ ((pc = "next" /\ pc' = "idle" /\ reorg_at # 0 /\ reorg_at' = reorg_at) =>
           /\ wsScan' = <<[block_number |-> IF reorg_at > 20 THEN reorg_at - 20 ELSE 0,
                           block_hash |-> ZeroHash]>>
           /\ last_block_hash' = NoneHash)]_vars

\* The persisted rollup cursor, 0 when the row is absent.
RollupCursor == LoadRollupCursor

\* The minute buckets that hold a tx row.
BucketsWithRows ==
  {(txs[i].block_timestamp \div BucketSeconds) * BucketSeconds : i \in 1..Len(txs)}

\* C4: whenever the rollup is between cycles, every completed minute bucket
\* at or before the persisted rollup cursor that holds tx rows has a
\* metrics_minute row whose tx_count is the number of those rows.
C4_RollupCompleteness ==
  rpc = "idle" =>
    \A b \in BucketsWithRows :
      (b <= clock - BucketSeconds /\ b <= RollupCursor) =>
        \E m \in metrics_minute :
          /\ m.bucket_ts = b
          /\ m.tx_count = Cardinality(InBucket(txs, b))

\* C5: every step that writes metrics_minute or the persisted rollup cursor
\* writes a bucket that is a multiple of 60 and whose minute has fully
\* elapsed on the clock of the write.
C5_AlignedBuckets ==
  [][/\ \A m \in metrics_minute' \ metrics_minute :
          m.bucket_ts % 60 = 0 /\ m.bucket_ts + 60 <= clock'
     /\ wsRollup' # wsRollup =>
          /\ wsRollup'[1].last_bucket_ts % 60 = 0
          /\ wsRollup'[1].last_bucket_ts + 60 <= clock']_vars

\* C5 witness: in the middle of a minute, a cycle has written the aggregate
\* row of the minute before and has persisted that bucket as the cursor.
C5_Witness ==
  /\ rpc = "idle"
  /\ clock % 60 # 0
  /\ wsRollup # <<>>
  /\ wsRollup[1].last_bucket_ts = TargetBucket(clock)
  /\ \E m \in metrics_minute :
       m.bucket_ts = TargetBucket(clock) /\ m.tx_count > 0

\* C6: in no step, a failed cursor write and a restart included, does the
\* in-memory last_bucket_ts or the persisted rollup cursor decrease.
C6_MonotoneRollupCursor ==
  [][/\ last_bucket_ts' >= last_bucket_ts
     /\ RollupCursor' >= RollupCursor]_vars

\* C7: no two alert_events rows of the same alert have triggered_at values
\* closer than the alert's cooldown_minutes * 60 seconds, database failures
\* between the event insert and the last_triggered_at update included.
C7_CooldownHonored ==
  \A i, j \in 1..Len(alert_events) :
    (i < j /\ alert_events[i].alert_id = alert_events[j].alert_id) =>
      alert_events[j].triggered_at - alert_events[i].triggered_at
        >= alerts[alert_events[i].alert_id].cooldown_minutes * 60

\* The rpc_endpoints rows the probe has written.
ProbedEndpoints == {e \in EndpointIds : rpc_endpoints[e].last_probe_at # 0}

\* C8: every rpc_endpoints row written by the probe has a score from 0 to
\* 100 and the status of that score: healthy above 80, degraded above 50 and
\* up to 80, unhealthy up to 50.
C8_ScoreBounds ==
  \A e \in ProbedEndpoints :
    LET row == rpc_endpoints[e]
    IN /\ row.score >= 0
       /\ row.score <= 100
       /\ row.score > 80 => row.status = "healthy"
       /\ (row.score > 50 /\ row.score <= 80) => row.status = "degraded"
       /\ row.score <= 50 => row.status = "unhealthy"

\* C8 witness: the probe has written one endpoint with score 80 as degraded
\* and another, after two failed probes in a row, with score 50 as unhealthy.
C8_Witness ==
  \E e1, e2 \in ProbedEndpoints :
    /\ rpc_endpoints[e1].score = 80
    /\ rpc_endpoints[e1].status = "degraded"
    /\ rpc_endpoints[e2].score = 50
    /\ rpc_endpoints[e2].status = "unhealthy"

\* Endpoint e has the highest score among the endpoints ids.
HighestScoring(e, ids) ==
  /\ e \in ids
  /\ \A y \in ids : rpc_endpoints[y].score <= rpc_endpoints[e].score

\* C11: whenever get_primary returns, against the rows its deciding query
\* read: with an active healthy endpoint it returns a highest-scoring one of
\* these; without one, a highest-scoring active endpoint whatever its
\* status; without any active endpoint it raises; the endpoint returned is
\* active.
C11_GetPrimarySelection ==
  [][(returned' # returned /\ returned'.op = "get_primary") =>
       /\ HealthyIds # {} =>
            ~returned'.raised /\ HighestScoring(returned'.id, HealthyIds)
       /\ (HealthyIds = {} /\ ActiveIds # {}) =>
            ~returned'.raised /\ HighestScoring(returned'.id, ActiveIds)
       /\ ActiveIds = {} => returned'.raised
       /\ ~returned'.raised => rpc_endpoints[returned'.id].is_active]_vars

\* C11 witness: no endpoint is healthy, endpoint 1 has dropped to score 25,
\* endpoint 2 is unhealthy with a higher score, and get_primary has returned
\* endpoint 2 from its fallback query.
C11_Witness ==
  /\ returned.op = "get_primary"
  /\ returned.query = "fallback"
  /\ returned.id = 2
  /\ HealthyIds = {}
  /\ rpc_endpoints[1].is_active
  /\ rpc_endpoints[1].score = 25
  /\ rpc_endpoints[2].status = "unhealthy"
  /\ rpc_endpoints[2].score > rpc_endpoints[1].score

\* C12: a call of should_switch for an endpoint of the table returns true
\* exactly when the score it reads is below 50 and at least 30 seconds lie
\* between last_switch_time and its now; last_switch_time changes exactly in
\* the steps that return true, and then to the call's now; so a true result
\* is never less than 30 seconds after the one before.
C12_ShouldSwitch ==
  [][/\ (sw' # sw /\ sw'.ret \in {"true", "false"}
                   /\ sw'.current_id \in EndpointIds) =>
          (sw'.ret = "true" <=>
             /\ rpc_endpoints[sw'.current_id].score < 50
             /\ sw'.now - last_switch_time >= 30)
     /\ (sw' # sw /\ sw'.ret = "true") =>
          /\ last_switch_time' = sw'.now
          /\ sw'.now - last_switch_time >= 30
     /\ last_switch_time' # last_switch_time =>
          (sw' # sw /\ sw'.ret = "true")]_vars

\* C12 witness: should_switch has returned true exactly 30 seconds after the
\* true result before it.
C12_Witness ==
  /\ sw.ret = "true"
  /\ sw.current_id \in EndpointIds
  /\ sw.last > 0
  /\ sw.now - sw.last = 30
  /\ last_switch_time = sw.now

\* C13: every client returned by get_primary or get_trace_provider sends
\* its requests to the url that the selected rpc_endpoints row holds at the
\* time of the selection.
C13_NoStaleEndpoint ==
  [][(/\ returned' # returned
      /\ returned'.op \in {"get_primary", "get_trace_provider"}
      /\ returned'.id \in EndpointIds) =>
        returned'.client = rpc_endpoints[returned'.id].url]_vars

\* C14: a call that got a well-formed response carrying a JSON-RPC error
\* object raises an error that carries the object's numeric code and its
\* message unchanged.
C14_ProtocolErrorKeepsCode ==
  [][(cpc = "post" /\ cpc' = "idle" /\ response'.kind = "error") =>
       /\ outcome'.kind = "RPCError"
       /\ outcome'.code = response'.code
       /\ outcome'.message = <<response'.message>>]_vars

\* C15: the score a probe cycle writes for a successfully probed endpoint is
\* computed with block_lag = max(0, leader - block_number), the leader being
\* the highest block number among the cycle's successful results.
C15_BlockLagScoring ==
  [][\A e \in EndpointIds :
       (/\ ppc = "update"
        /\ rpc_endpoints'[e] # rpc_endpoints[e]
        /\ results[e].kind = "dict"
        /\ results[e].is_success) =>
          rpc_endpoints'[e].score =
            calculate_score(results[e].latency_ms, 0,
                            Max(0, LeaderOf(1, 0) - results[e].block_number))]_vars

\* The endpoint probes in flight: eth_blockNumber issued and not completed.
InFlight == {e \in EndpointIds : probing[e] = "rpc"}

\* C16: at every moment of a probe cycle at most max_concurrent_probes
\* endpoint probes are in flight.
C16_BoundedProbeConcurrency == Cardinality(InFlight) <= max_concurrent_probes

\* The happy-ingest scenario on this chain: the tip is InitialTip, the
\* cursor is three blocks behind it, and nothing disturbs the run.
HappyCursor == InitialTip - 3
Undisturbed == faults = 0 /\ forks = 0 /\ tip = InitialTip

\* All rows of reverted transactions carry the decoded revert message.
FailedRowsDecoded ==
  \A i \in 1..Len(txs) :
    txs[i].status = 0 => txs[i].error_decoded = "insufficient balance"

\* C17 as stated: when the scan cycle that started with the cursor three
\* blocks behind the tip has returned, the blocks up to the tip are ingested:
\* txs holds all their rows, the reverted ones with error_decoded
\* "insufficient balance", and the cursor is the tip.
C17_HappyIngestOneCycle ==
  (Undisturbed /\ pc = "idle" /\ last_scanned = HappyCursor) =>
    /\ CursorNum = tip
    /\ txs = UninterruptedRows(tip)
    /\ FailedRowsDecoded

\* C17 amended: a scan cycle that starts three blocks behind the tip is not
\* catching up and requests one block; when it has returned the cursor is one
\* block further and txs holds the rows up to that block only; when the third
\* such cycle has returned the cursor is the tip and txs holds all rows, the
\* reverted ones with error_decoded "insufficient balance".
C17_HappyIngestThreeCycles ==
  /\ [][(pc = "idle" /\ pc' = "fetch" /\ tip - CursorNum = 3) =>
          (block_num' = CursorNum + 1 /\ batch_end' = CursorNum + 1)]_vars
  /\ []((Undisturbed /\ pc = "idle" /\ last_scanned = HappyCursor) =>
          /\ CursorNum = HappyCursor + 1
          /\ txs = UninterruptedRows(HappyCursor + 1)
          /\ FailedRowsDecoded)
  /\ []((Undisturbed /\ pc = "idle" /\ last_scanned = HappyCursor + 2) =>
          /\ CursorNum = tip
          /\ txs = UninterruptedRows(tip)
          /\ Len(txs) > Len(UninterruptedRows(HappyCursor))
          /\ FailedRowsDecoded)

\* C17 witness: the third cycle of the scenario has returned; the rows of a
\* scenario block are in txs, a reverted one among them with its message.
C17_Witness ==
  /\ Undisturbed /\ pc = "idle" /\ last_scanned = HappyCursor + 2
  /\ CursorNum = tip
  /\ \E i \in 1..Len(txs) :
       /\ txs[i].block_number > HappyCursor
       /\ txs[i].status = 0
       /\ txs[i].error_decoded = "insufficient balance"

\* The reorg scenario: the cycle started with the cursor at the last ingested
\* block, one below the tip, and found that the tip block's parentHash is not
\* the hash it ingested.
ReorgScenario ==
  reorg_at # 0 /\ reorg_at = block_num /\ last_scanned = reorg_at - 1 /\ tip = reorg_at

\* Every row of txs stays in its place with its hash in this step.
RowsStay ==
  /\ Len(txs') >= Len(txs)
  /\ \A i \in 1..Len(txs) : txs'[i].hash = txs[i].hash

\* C18 as stated, L being the last ingested block (100) and L + 1 the tip:
\* the cycle marks the rows with block_number >= L - 10 tentative, moves the
\* cursor to L - 20 and clears last_block_hash; the next cycle starts at
\* block L - 20 + 1; rows stay through re-ingestion.
C18_ReorgScenarioFromIngested ==
  [][/\ (ReorgScenario /\ pc = "reorg_rollback" /\ pc' = "next") =>
          /\ \A i \in 1..Len(txs') :
               txs'[i].block_number >= last_scanned - 10 => txs'[i].is_tentative
          /\ CursorNum' = Max(0, last_scanned - 20)
          /\ last_block_hash' = NoneHash
     /\ (ReorgScenario /\ pc = "idle" /\ pc' = "fetch" /\ CursorHash = ZeroHash) =>
          block_num' = Max(0, last_scanned - 20) + 1
     /\ RowsStay]_vars

\* C18 amended, n = L + 1 being the block the mismatch is found at (101):
\* the cycle marks the rows with block_number >= n - 10 tentative, moves the
\* cursor to max(0, n - 20) with hash "0x0" and clears last_block_hash; the
\* next cycle starts at block max(0, n - 20) + 1; every row stays through
\* re-ingestion.
C18_ReorgScenarioFromDetected ==
  [][/\ (ReorgScenario /\ pc = "reorg_rollback" /\ pc' = "next") =>
          /\ \A i \in 1..Len(txs') :
               txs'[i].block_number >= reorg_at - 10 => txs'[i].is_tentative
          /\ CursorNum' = Max(0, reorg_at - 20)
          /\ CursorHash' = ZeroHash
          /\ last_block_hash' = NoneHash
     /\ (ReorgScenario /\ pc = "idle" /\ pc' = "fetch" /\ CursorHash = ZeroHash) =>
          block_num' = Max(0, reorg_at - 20) + 1
     /\ RowsStay]_vars

\* C18 witness: after the reorg of the scenario the blocks were ingested
\* again up to the replaced block: its row from before is still there,
\* tentative, next to a new row of the replacing branch.
C18_Witness ==
  /\ CursorNum >= InitialTip
  /\ CursorHash # ZeroHash
  /\ \E i, j \in 1..Len(txs) :
       /\ txs[i].block_number = InitialTip /\ txs[i].is_tentative
       /\ txs[j].block_number = InitialTip /\ ~txs[j].is_tentative
       /\ txs[j].hash[2] >= 2

\* C19: a rollup cycle whose count query finds no tx row in the target bucket
\* T sets the cursor to T, in memory at once and in worker_state with the
\* write that ends the cycle, and leaves metrics_minute as it is; every
\* metrics_minute row has tx_count >= 1 and tx_failed_count <= tx_count.
C19_EmptyMinute ==
  /\ [][/\ (rpc = "count" /\ InBucket(txs, target_bucket) = {}
              /\ rpc' \notin {"count", "idle"}) =>
             /\ rpc' = "save"
             /\ last_bucket_ts' = target_bucket
             /\ metrics_minute' = metrics_minute
        /\ (rpc = "save" /\ metrics = NoMetrics) =>
             /\ metrics_minute' = metrics_minute
             /\ wsRollup' # wsRollup => RollupCursor' = target_bucket
             /\ (rpc' = "idle" /\ faults' = faults) => RollupCursor' = target_bucket]_vars
  /\ [](\A r \in metrics_minute :
          r.tx_count >= 1 /\ r.tx_failed_count <= r.tx_count)

\* C19 witness: after a minute with rows was rolled up, the cycle for an
\* empty minute has returned: the cursor stands at that minute and no
\* metrics_minute row exists for it.
C19_Witness ==
  /\ rpc = "idle"
  /\ metrics_minute # {}
  /\ RollupCursor > 0
  /\ last_bucket_ts = RollupCursor
  /\ InBucket(txs, RollupCursor) = {}
  /\ \A r \in metrics_minute : r.bucket_ts < RollupCursor

\* The tx rows an evaluation of `alert` at time now counts: block_timestamp
\* in [now - window_minutes * 60, now) and, with a contract filter, a
\* contract_id of the filter.
CountedRows(alert, now) ==
  {i \in 1..Len(txs) :
     /\ now - alert.window_minutes * 60 <= txs[i].block_timestamp
     /\ txs[i].block_timestamp < now
     /\ (alert.contract_ids = {} \/ txs[i].contract_id \in alert.contract_ids)}

FailedRows(alert, now) == {i \in CountedRows(alert, now) : txs[i].status = 0}

\* C20: an evaluation of an enabled failure_rate alert outside its cooldown
\* goes on to insert an event exactly when total > 0 and failed/total*100 is
\* strictly above the threshold, total and failed counting the rows of the
\* window (and of the contract filter); the insert appends one row, with
\* value_observed = failed/total*100, and nothing else adds an event.
C20_FailureRateRule ==
  [][/\ (/\ apc = "eval" /\ faults' = faults /\ <<apc, ai>>' # <<apc, ai>>
         /\ loaded[ai].alert_type = "failure_rate"
         /\ ~InCooldown(loaded[ai], eval_now)) =>
          LET total == Cardinality(CountedRows(loaded[ai], eval_now))
              failed == Cardinality(FailedRows(loaded[ai], eval_now))
          IN /\ apc' = "event" <=>
                  (total > 0 /\ failed * 100 > loaded[ai].threshold * total)
             /\ apc' = "event" =>
                  /\ observed'.den # 0
                  /\ observed'.num * total = failed * 100 * observed'.den
     /\ (apc = "event" /\ apc' = "update") =>
          /\ Len(alert_events') = Len(alert_events) + 1
          /\ SubSeq(alert_events', 1, Len(alert_events)) = alert_events
          /\ alert_events'[Len(alert_events')].alert_id = loaded[ai].id
          /\ alert_events'[Len(alert_events')].value_observed = observed
     /\ alert_events' # alert_events => (apc = "event" /\ apc' = "update")]_vars

\* C20 witness: the alert filtered by contract 1 has fired on the rows of
\* that contract alone (1 of 1 failed, 100 > 50) while the window holds
\* other rows as well.
C20_Witness ==
  /\ apc = "update"
  /\ loaded[ai].id = 2
  /\ observed = [num |-> 100, den |-> 1]
  /\ alert_events[Len(alert_events)].value_observed = observed
  /\ \E i \in 1..Len(txs) :
       /\ txs[i].block_timestamp < eval_now
       /\ txs[i].block_timestamp >= eval_now - 120
       /\ txs[i].contract_id # 1

\* The rows of metrics_minute with from <= bucket_ts < to.
GasWindow(from, to) == {r \in metrics_minute : from <= r.bucket_ts /\ r.bucket_ts < to}

\* C21: an evaluation of a gas_spike alert outside its cooldown goes on to
\* insert an event exactly when the window and the hour before it both hold
\* rows of metrics_minute, the baseline average of gas_price_avg is not 0
\* and current average / baseline average is strictly above the threshold;
\* otherwise the evaluation ends with alert_events and alerts as they were.
\* An event is only added by that insert, for the alert under evaluation,
\* and last_triggered_at only changes after it, for that alert.
C21_GasSpikeRule ==
  [][/\ (/\ apc = "eval" /\ faults' = faults /\ <<apc, ai>>' # <<apc, ai>>
         /\ loaded[ai].alert_type = "gas_spike"
         /\ ~InCooldown(loaded[ai], eval_now)) =>
          LET from == eval_now - loaded[ai].window_minutes * 60
              current == GasWindow(from, eval_now)
              baseline == GasWindow(from - 3600, from)
              cur == SumGasAvg(current)
              base == SumGasAvg(baseline)
              cn == Cardinality(current)
              bn == Cardinality(baseline)
          IN /\ apc' = "event" <=>
                  /\ current # {}
                  /\ baseline # {}
                  /\ base # 0
                  /\ cur * bn > loaded[ai].threshold * base * cn
             /\ apc' = "event" =>
                  /\ observed'.den # 0
                  /\ observed'.num * base * cn = cur * bn * observed'.den
             /\ apc' # "event" =>
                  /\ ai' = ai + 1
                  /\ alert_events' = alert_events
                  /\ alerts' = alerts
     /\ (apc = "event" /\ apc' = "update") =>
          /\ Len(alert_events') = Len(alert_events) + 1
          /\ SubSeq(alert_events', 1, Len(alert_events)) = alert_events
          /\ alert_events'[Len(alert_events')].alert_id = loaded[ai].id
          /\ alert_events'[Len(alert_events')].value_observed = observed
     /\ alert_events' # alert_events => (apc = "event" /\ apc' = "update")
     /\ alerts' # alerts =>
          /\ apc = "update"
          /\ alerts' = [alerts EXCEPT ![loaded[ai].id].last_triggered_at = eval_now]]_vars

\* C21 witness: the rule with threshold 4 has fired on a current average of
\* 80 over a baseline of two minutes averaging 10, one of them at 0.
C21_Witness ==
  /\ apc = "update"
  /\ loaded[ai].alert_type = "gas_spike"
  /\ loaded[ai].id = 2
  /\ observed = [num |-> 160, den |-> 20]
  /\ alert_events[Len(alert_events)].value_observed = observed
  /\ \E r \in metrics_minute : r.gas_price_avg = 0

\* A gas_spike evaluation that found rows on both sides and a baseline
\* average of 0 has ended without an event.
C21_BaselineZero ==
  /\ apc = "eval"
  /\ ai = 2
  /\ alert_events = <<>>
  /\ faults = 0
  /\ loaded[1].alert_type = "gas_spike"
  /\ GasWindow(eval_now - 60, eval_now) # {}
  /\ GasWindow(eval_now - 3660, eval_now - 60) # {}
  /\ SumGasAvg(GasWindow(eval_now - 3660, eval_now - 60)) = 0

\* C22 as stated: with calculate_score(null, 4, 0) = 0.
C22_ReferenceScoresAsStated ==
  /\ score_args = <<120, 0, 0>> => score_ret = 100
  /\ score_args = <<450, 0, 0>> => score_ret = 95
  /\ score_args = <<200, 2, 0>> => score_ret = 50
  /\ score_args = <<NoLatency, 4, 0>> => score_ret = 0
  /\ score_args = <<200, 0, 3>> => score_ret = 70

\* C22: calculate_score(120,0,0) = 100, calculate_score(450,0,0) = 95,
\* calculate_score(200,2,0) = 50, calculate_score(200,0,3) = 70, and
\* calculate_score(null,4,0) = 25: the error penalty is capped at 75.
C22_ReferenceScores ==
  /\ score_args = <<120, 0, 0>> => score_ret = 100
  /\ score_args = <<450, 0, 0>> => score_ret = 95
  /\ score_args = <<200, 2, 0>> => score_ret = 50
  /\ score_args = <<NoLatency, 4, 0>> => score_ret = 25
  /\ score_args = <<200, 0, 3>> => score_ret = 70

\* C22 witness: calculate_score(null, 4, 0) has returned 25.
C22_Witness ==
  /\ score_args = <<NoLatency, 4, 0>>
  /\ score_ret = 25

\* An evaluation cycle ends in this step: the cursor was written, or the
\* cycle returned because no alert is enabled.
EvalCycleEnds ==
  \/ apc = "cursor" /\ apc' = "idle" /\ faults' = faults
  \/ apc = "idle" /\ apc' = "idle" /\ eval_now' = clock /\ eval_now' # eval_now

\* The `now` of the cycle that ends in this step.
EndingCycleNow == IF apc = "cursor" THEN eval_now ELSE eval_now'

\* C23: every evaluation cycle that completes leaves
\* alert_eval_cursor.last_eval_ts at the cycle's now, whatever the number of
\* enabled alerts and whether evaluations of alerts failed.
C23_CursorEveryCycle ==
  [][EvalCycleEnds => wsAlert' = << [last_eval_ts |-> EndingCycleNow] >>]_vars

\* A cycle that evaluated at least one alert leaves the cursor at its now,
\* also after evaluations that raised.
C23_CursorAfterEvaluations ==
  [][(apc = "cursor" /\ apc' = "idle" /\ faults' = faults) =>
       wsAlert' = << [last_eval_ts |-> eval_now] >>]_vars

EvalSteps == {"eval", "event", "update"}

\* C24: an error raised by a step of one alert's evaluation changes no row
\* of alerts or alert_events, and the cycle goes on with the next loaded
\* alert: the loop passes every loaded alert before the cursor write. An
\* alert evaluated after an error fires exactly when its own rule says so
\* on its own loaded row, and its event and last_triggered_at are those of
\* its own evaluation.
C24_AlertIsolation ==
  [][/\ (apc \in EvalSteps /\ faults' # faults) =>
          /\ alerts' = alerts
          /\ alert_events' = alert_events
          /\ loaded' = loaded
          /\ eval_now' = eval_now
          /\ ai' = ai + 1
          /\ apc' = IF ai < Len(loaded) THEN "eval" ELSE "cursor"
     /\ (apc \in EvalSteps /\ ai' # ai) => ai' = ai + 1
     /\ (apc \in EvalSteps /\ apc' = "cursor") => ai = Len(loaded)
     /\ (apc = "eval" /\ faults > 0 /\ faults' = faults /\ <<apc, ai>>' # <<apc, ai>>) =>
          LET total == Cardinality(CountedRows(loaded[ai], eval_now))
              failed == Cardinality(FailedRows(loaded[ai], eval_now))
          IN apc' = "event" <=>
               /\ ~InCooldown(loaded[ai], eval_now)
               /\ total > 0
               /\ failed * 100 > loaded[ai].threshold * total
     /\ (apc = "event" /\ faults > 0 /\ faults' = faults /\ apc' # apc) =>
          /\ alert_events' = Append(alert_events,
                [alert_id |-> loaded[ai].id, triggered_at |-> eval_now,
                 severity |-> loaded[ai].severity, value_observed |-> observed,
                 threshold |-> loaded[ai].threshold])
          /\ alerts' = alerts
     /\ (apc = "update" /\ faults > 0 /\ faults' = faults /\ apc' # apc) =>
          /\ alerts' = [alerts EXCEPT ![loaded[ai].id].last_triggered_at = eval_now]
          /\ alert_events' = alert_events]_vars

\* C24 witness: in one cycle the first alert's event was inserted and the
\* update of its last_triggered_at raised; the second alert was evaluated
\* all the same and its event is in.
C24_Witness ==
  /\ apc = "update"
  /\ ai = 2
  /\ Len(loaded) = 2
  /\ faults > 0
  /\ alerts[loaded[1].id].last_triggered_at # eval_now
  /\ Cardinality({i \in 1..Len(alert_events) :
                    /\ alert_events[i].alert_id = loaded[1].id
                    /\ alert_events[i].triggered_at = eval_now}) = 1
  /\ Cardinality({i \in 1..Len(alert_events) :
                    /\ alert_events[i].alert_id = loaded[2].id
                    /\ alert_events[i].triggered_at = eval_now}) = 1
  /\ alert_events[Len(alert_events)].alert_id = loaded[2].id

\* C25: once the signal is handled stop requests the cancellation of every
\* pipeline task that is not done; a task with a cancellation requested
\* takes no step other than ending (it starts no further call and does not
\* go back to sleep in run's handler); db.disconnect is called only with
\* the four pipeline tasks and the probe_endpoint tasks finished; and no
\* task starts a call after disconnect was called.
C25_ShutdownOrdering ==
  [][/\ (wpc # "gather" /\ wpc' = "gather") =>
          /\ shutdown_event
          /\ \A p \in Pipelines : tasks'[p] # "done" => p \in cancelling'
     /\ \A t \in Tasks :
          (t \in cancelling /\ tasks'[t] # tasks[t]) =>
             (tasks'[t] = "done" /\ t \notin cancelling')
     /\ (pool # "closed" /\ pool' = "closed") =>
          /\ \A p \in Pipelines : tasks[p] = "done"
          /\ \A c \in ProbeTasks : tasks[c] \in {"none", "done"}
          /\ cancelling = {}
     /\ late_calls' = {}]_vars

\* C25 witness: after a signal the worker has stopped: the pool is closed
\* and the four pipelines are done, the probe having been cancelled while
\* its probe_endpoint tasks were running.
C25_Witness ==
  /\ wpc = "exited"
  /\ shutdown_event
  /\ pool = "closed"
  /\ \A p \in Pipelines : tasks[p] = "done"
  /\ \A c \in ProbeTasks : tasks[c] = "done"

\* C26: after db.connect has failed the process keeps running and the
\* pipelines are started.
C26_StartupFailureKeepsRunning ==
  connect_failed =>
    /\ wpc # "exited"
    /\ \A p \in Pipelines : tasks[p] # "none"

\* C27: a fetch that returns null for block n writes nothing, leaves the
\* persisted cursor at n - 1 and is the last fetch of its cycle: n is the
\* last block of the cycle's range, so that no block above n is processed
\* before n is tried again.
C27_MissingBlockEndsCycle ==
  [][(pc = "fetch" /\ pc' = "next") =>
       /\ txs' = txs
       /\ wsScan' = wsScan
       /\ CursorNum = block_num - 1
       /\ block_num = batch_end]_vars

SelectionState == <<rpc_endpoints, consecutive_failures, providers, last_switch_time>>

\* C29: a failing eth_blockNumber ends the cycle before it began, and a
\* failing eth_getBlockByNumber ends it at that block; the failed step
\* leaves the persisted cursor, last_block_hash, txs and everything
\* mark_failure could touch as they were.
C29_TransientRpcFailure ==
  [][(pc \in {"idle", "fetch"} /\ faults' # faults) =>
       /\ pc' = "idle"
       /\ wsScan' = wsScan
       /\ last_block_hash' = last_block_hash
       /\ txs' = txs
       /\ SelectionState' = SelectionState]_vars

\* C29 witness: eth_getBlockByNumber failed in the middle of a catch-up
\* range: the cycle is over with the blocks before it ingested and the
\* cursor at the last of them.
C29_Witness ==
  /\ pc = "idle"
  /\ faults > 0
  /\ CursorNum >= 4
  /\ CursorNum = block_num - 1
  /\ block_num < batch_end
  /\ last_block_hash = CursorHash
  /\ Len(txs) = 2

\* scan_cycle begins: run calls it, and eth_blockNumber answers.
ScanCycleBegins ==
  pc = "idle" /\ faults' = faults /\ tip' = tip /\ chain' = chain

\* C30, as stated: a cycle with tip > cursor sets catching_up to
\* (tip - cursor > 10) and takes the blocks cursor+1 .. cursor+batch in
\* increasing order, batch = min(block_batch_size, tip - cursor) when
\* catching up and 1 otherwise, never above the tip; a cycle with
\* tip <= cursor clears catching_up and writes nothing; and the sleep after
\* any cycle is 0.5 s iff catching_up.
C30_AdaptiveScanning ==
  [][LET cursor == CursorNum
         behind == tip - cursor
         batch == IF behind > 10 THEN Min(block_batch_size, behind) ELSE 1
     IN /\ ScanCycleBegins =>
             IF tip > cursor
               THEN /\ catching_up' = (behind > 10)
                    /\ block_num' = cursor + 1
                    /\ batch_end' = cursor + batch
                    /\ batch_end' <= tip
                    /\ pc' = "fetch"
               ELSE /\ catching_up' = FALSE
                    /\ txs' = txs
                    /\ wsScan' = wsScan
        /\ (pc = "next" /\ pc' = "fetch") =>
             block_num' = block_num + 1 /\ block_num' <= batch_end
        /\ (CycleRaised \/ CycleReturned) =>
             (RunSleep(CycleRaised, catching_up') = CatchUpSleep
                <=> catching_up')]_vars

\* C30, for the cycles that return: the same ranges, and the sleep after a
\* cycle that returned is 0.5 s iff catching_up and poll_interval_scanner
\* otherwise; after a cycle that raised it is 5 s.
C30_AdaptiveUnlessRaised ==
  [][LET cursor == CursorNum
         behind == tip - cursor
         batch == IF behind > 10 THEN Min(block_batch_size, behind) ELSE 1
     IN /\ ScanCycleBegins =>
             IF tip > cursor
               THEN /\ catching_up' = (behind > 10)
                    /\ block_num' = cursor + 1
                    /\ batch_end' = cursor + batch
                    /\ batch_end' <= tip
                    /\ pc' = "fetch"
               ELSE /\ catching_up' = FALSE
                    /\ txs' = txs
                    /\ wsScan' = wsScan
        /\ (pc = "next" /\ pc' = "fetch") =>
             block_num' = block_num + 1 /\ block_num' <= batch_end
        /\ CycleReturned =>
             RunSleep(FALSE, catching_up') =
               IF catching_up' THEN 500 ELSE 2000
        /\ CycleRaised => RunSleep(TRUE, catching_up') = 5000]_vars

\* The row with is_tentative set: the one column handle_reorg writes.
Tentative(row) == [row EXCEPT !.is_tentative = TRUE]

\* C31: no step changes a column of an existing tx row other than setting
\* is_tentative to true, and only reorg handling does that: a scan of a
\* block whose rows exist leaves them as they are, a tentative row stays
\* tentative, and every row added is inserted with is_tentative = false.
C31_ReingestOverwritesNothing ==
  [][/\ Len(txs') >= Len(txs)
     /\ \A i \in 1..Len(txs) :
          /\ txs'[i] \in {txs[i], Tentative(txs[i])}
          /\ pc # "reorg_mark" => txs'[i] = txs[i]
     /\ \A i \in (Len(txs) + 1)..Len(txs') : ~txs'[i].is_tentative]_vars

\* C31 witness: after a reorg rollback a block is scanned again whose
\* transaction has a tentative row, and a row of the replacing branch was
\* inserted after the rollback: it is not tentative, the older one still is.
C31_Witness ==
  /\ pc = "persist"
  /\ \E i, j \in 1..Len(txs) :
       /\ i < j
       /\ txs[i].is_tentative
       /\ txs[i].hash \in Range(block.transactions)
       /\ ~txs[j].is_tentative
       /\ txs[j].block_number <= txs[i].block_number

\* The step in which e's eth_blockNumber answers or fails.
ProbeEnds(e) == probing[e] = "rpc" /\ probing'[e] = "sample"

\* C32: in a cycle whose database calls succeed, a probe that answers sets
\* the endpoint's counter to 0 and one that fails adds 1 to it; the probe
\* then appends one sample for that endpoint, so each active endpoint has
\* one sample per cycle; the row is updated with a score calculate_score
\* gives for the sample's latency and that counter; and the endpoint that
\* failed in all k cycles so far has score max(25, 100 - 25k).
C32_ProbeBookkeeping ==
  /\ [](ppc = "idle" =>
          \A e \in EndpointIds :
            /\ rpc_health_samples[e].count =
                 IF e \in InitiallyActive THEN probe_cycles ELSE 0
            /\ (e = DownEndpoint /\ probe_cycles >= 1) =>
                 /\ consecutive_failures[e] = probe_cycles
                 /\ rpc_endpoints[e].score = Max(25, 100 - 25 * probe_cycles))
  /\ [][\A e \in EndpointIds :
          /\ ProbeEnds(e) =>
               /\ consecutive_failures'[e] =
                    IF results'[e].is_success THEN 0
                    ELSE consecutive_failures[e] + 1
               /\ \A o \in EndpointIds \ {e} :
                    consecutive_failures'[o] = consecutive_failures[o]
          /\ (probing[e] = "sample" /\ probing'[e] = "done") =>
               /\ rpc_health_samples'[e].count = rpc_health_samples[e].count + 1
               /\ rpc_health_samples'[e].last.is_success = results[e].is_success
               /\ \A o \in EndpointIds \ {e} :
                    rpc_health_samples'[o] = rpc_health_samples[o]
          /\ (ppc = "update" /\ endpoints[ui] = e) =>
               /\ rpc_endpoints'[e].last_probe_at = clock
               /\ \E block_lag \in 0..1 :
                    rpc_endpoints'[e].score =
                      calculate_score(rpc_health_samples[e].last.latency_ms,
                                      consecutive_failures[e], block_lag)]_vars

\* C32 witness: the endpoint that is down has failed four cycles, its
\* counter is 4 and its score stays at 25; the other one answered in the
\* last cycle after failing before.
C32_Witness ==
  /\ ppc = "idle"
  /\ probe_cycles = 4
  /\ consecutive_failures[DownEndpoint] = 4
  /\ rpc_endpoints[DownEndpoint].score = 25
  /\ rpc_health_samples[DownEndpoint].count = 4
  /\ \E e \in EndpointIds \ {DownEndpoint} :
       /\ consecutive_failures[e] = 0
       /\ rpc_health_samples[e].last.is_success
       /\ rpc_health_samples[e].count = 4

\* The step is the probe's update of e's row: score, status, supports_traces
\* and last_probe_at are written, supports_traces as false.
ProbeWrote(e) ==
  \E score \in 0..100 :
    rpc_endpoints'[e] =
      [rpc_endpoints[e] EXCEPT !.score = score,
                               !.status = score_to_status(score),
                               !.supports_traces = FALSE,
                               !.last_probe_at = clock]

\* Whenever get_trace_provider returns, against the rows its query read:
\* without an active healthy endpoint with supports_traces it returns none;
\* otherwise a highest-scoring one of these.
TraceSelection ==
  (returned' # returned /\ returned'.op = "get_trace_provider") =>
    /\ ~returned'.raised
    /\ IF TraceIds = {} THEN returned'.id = 0
       ELSE /\ HighestScoring(returned'.id, TraceIds)
            /\ rpc_endpoints[returned'.id].is_active
            /\ rpc_endpoints[returned'.id].status = "healthy"
            /\ rpc_endpoints[returned'.id].supports_traces

\* C33, as stated: the selection above, and an endpoint with the flag stays
\* a candidate of get_trace_provider as long as it stays active and healthy.
C33_TraceProviderAsStated ==
  [][/\ TraceSelection
     /\ \A e \in EndpointIds :
          (e \in TraceIds /\ e \in HealthyIds') => e \in TraceIds']_vars

\* C33: the selection above, and an endpoint with the flag stays a candidate
\* of get_trace_provider as long as it stays active and healthy and the
\* probe does not update its row.
C33_TraceProvider ==
  [][/\ TraceSelection
     /\ \A e \in EndpointIds :
          (e \in TraceIds /\ e \in HealthyIds' /\ ~ProbeWrote(e))
            => e \in TraceIds']_vars

\* C33 witness: endpoint 2 was flagged out-of-band and get_trace_provider
\* returned it, although endpoint 1 is active and healthy with a score at
\* least as high and has no flag.
C33_Witness ==
  /\ returned.op = "get_trace_provider"
  /\ returned.id = 2
  /\ TraceIds = {2}
  /\ 1 \in HealthyIds
  /\ rpc_endpoints[1].score >= rpc_endpoints[2].score

\* The message the claim gives for a panic code.
PanicMessage(n) ==
  IF n \in DOMAIN PANIC_CODES THEN PlainMessage(PANIC_CODES[n])
  ELSE Message("Panic(<n>)", n, <<>>)

\* C34, as stated: the selector is None iff the input is empty or shorter
\* than 10 characters, and then the result is "Unknown revert" without
\* params; otherwise the selector is the first 10 characters in lower case,
\* and the message is the decoded string or "Error(string)" for 0x08c379a0,
\* the panic table's entry or "Panic(<n>)" with params {code: n} for
\* 0x4e487b71, and "Custom error <selector>" without params for others.
C34_DecoderDispatchAsStated ==
  decoded # NoDecoded =>
    LET error_data == decoded.error_data
        short == Len(error_data) < 10
        selector == Lower(Slice(error_data, 0, 10))
        rest == Slice(error_data, 10, Len(error_data))
    IN /\ decoded.selector = NoSelector <=> short
       /\ short => /\ decoded.message = PlainMessage("Unknown revert")
                   /\ decoded.params = NoParams
       /\ ~short =>
            /\ decoded.selector = selector
            /\ IF selector = <<"0", "x">> \o ErrorSelector
                 THEN decoded.message =
                        IF DecodeStringRaises(rest)
                          THEN PlainMessage("Error(string)")
                          ELSE PlainMessage("insufficient balance")
               ELSE IF selector = <<"0", "x">> \o PanicSelector
                 THEN /\ ~DecodeUintRaises(rest)
                      /\ decoded.message = PanicMessage(DecodeUint(rest))
                      /\ decoded.params = CodeParams(DecodeUint(rest))
               ELSE /\ decoded.message =
                         Message("Custom error <selector>", -1, selector)
                    /\ decoded.params = NoParams

\* C34: as above, with the selector being "0x" and the first 8 characters
\* when the input does not begin with "0x" (the arguments are still taken
\* from the 11th character on), and with "Panic(uint256)" without params
\* when the arguments of 0x4e487b71 do not decode.
C34_DecoderDispatch ==
  decoded # NoDecoded =>
    LET error_data == decoded.error_data
        short == Len(error_data) < 10
        selector ==
          IF Slice(error_data, 0, 2) = <<"0", "x">>
            THEN Lower(Slice(error_data, 0, 10))
            ELSE <<"0", "x">> \o Lower(Slice(error_data, 0, 8))
        rest == Slice(error_data, 10, Len(error_data))
    IN /\ decoded.selector = NoSelector <=> short
       /\ short => /\ decoded.message = PlainMessage("Unknown revert")
                   /\ decoded.params = NoParams
       /\ ~short =>
            /\ decoded.selector = selector
            /\ IF selector = <<"0", "x">> \o ErrorSelector
                 THEN IF DecodeStringRaises(rest)
                        THEN /\ decoded.message = PlainMessage("Error(string)")
                             /\ decoded.params = NoParams
                        ELSE /\ decoded.message = PlainMessage("insufficient balance")
                             /\ decoded.params = MessageParams("insufficient balance")
               ELSE IF selector = <<"0", "x">> \o PanicSelector
                 THEN IF DecodeUintRaises(rest)
                        THEN /\ decoded.message = PlainMessage("Panic(uint256)")
                             /\ decoded.params = NoParams
                        ELSE /\ decoded.message = PanicMessage(DecodeUint(rest))
                             /\ decoded.params = CodeParams(DecodeUint(rest))
               ELSE /\ decoded.message =
                         Message("Custom error <selector>", -1, selector)
                    /\ decoded.params = NoParams

\* C35: between scan cycles a last_block_hash that is set is the hash
\* persisted with the cursor, the hash of the block the cursor names, also
\* after a cycle in which the write of the cursor failed; and a reorg is
\* reported at block n only when n's parentHash differs from the hash of
\* the block ingested at n - 1, the one the cursor holds.
C35_MemoryMatchesStore ==
  /\ []((pc = "idle" /\ last_block_hash # NoneHash)
          => last_block_hash = CursorHash)
  /\ [][(pc = "fetch" /\ pc' = "reorg_mark") =>
          /\ CursorNum = block_num - 1
          /\ ChainBlock(block_num).parentHash # CursorHash]_vars

\* C36: the parent check reads only last_block_hash, never the persisted
\* block_hash. A block fetched while last_block_hash is empty (after a
\* start or a rollback) is taken without a comparison whatever its
\* parentHash, and its number and hash become the cursor; a block fetched
\* while last_block_hash is set is reported as a reorg exactly when its
\* parentHash differs from the hash of the block scanned just before it.
C36_ParentCheckInMemoryOnly ==
  /\ [][(pc = "fetch" /\ pc' \notin {"fetch", "idle"} /\ last_block_hash = NoneHash) =>
          /\ pc' \in {"insert", "persist"}
          /\ block' = ChainBlock(block_num)]_vars
  /\ [][(pc = "persist" /\ pc' \notin {"persist", "idle"}) =>
          /\ CursorNum' = block_num
          /\ CursorHash' = block.hash
          /\ last_block_hash' = block.hash]_vars
  /\ [][(pc = "fetch" /\ pc' \notin {"fetch", "idle"} /\ last_block_hash # NoneHash) =>
          /\ block.number = block_num - 1
          /\ last_block_hash = block.hash
          /\ (pc' = "reorg_mark") <=> (ChainBlock(block_num).parentHash # block.hash)]_vars

\* A block that follows a restart is being ingested although its parentHash
\* differs from the persisted block_hash.
C36_Witness ==
  /\ pc \in {"insert", "persist"}
  /\ last_block_hash = NoneHash
  /\ CursorNum = block_num - 1
  /\ CursorHash # ZeroHash
  /\ block = ChainBlock(block_num)
  /\ block.parentHash # CursorHash

\* C37: with the tip fixed and every call succeeding, whatever cursor below
\* the tip is persisted, the cursor eventually equals the tip; and once it
\* does, no step writes transactions or last_scanned_block.
C37_CatchesUpThenQuiet ==
  /\ (CursorNum < tip) ~> (CursorNum = tip)
  /\ [][CursorNum = tip => UNCHANGED <<txs, wsScan>>]_vars

\* The scanner, restarted from a persisted cursor below the tip, has reached
\* the tip and its cycle has ended.
C37_Witness ==
  /\ CursorNum = tip
  /\ pc = "idle"
  /\ faults > 0
  /\ last_scanned = tip
  /\ txs # <<>>

\* C38: at every boundary of an evaluation cycle, an alert with at least one
\* event has last_triggered_at equal to the largest triggered_at of its
\* events, and every event carries the severity and threshold of its alert.
C38_EventsMatchAlerts ==
  apc = "idle" =>
    /\ \A id \in DOMAIN alerts :
         LET mine == {i \in 1..Len(alert_events) : alert_events[i].alert_id = id}
         IN mine # {} =>
              /\ \E i \in mine : alerts[id].last_triggered_at = alert_events[i].triggered_at
              /\ \A i \in mine : alert_events[i].triggered_at <= alerts[id].last_triggered_at
    /\ \A i \in 1..Len(alert_events) :
         /\ alert_events[i].severity = alerts[alert_events[i].alert_id].severity
         /\ alert_events[i].threshold = alerts[alert_events[i].alert_id].threshold

\* The same consistency while no database call of evaluate_alert has failed.
C38_EventsMatchAlertsUnlessRaised == (faults = 0) => C38_EventsMatchAlerts

====
